---------------------------- MODULE Spec2Model ----------------------------
(***************************************************************************)
(* A model of the two analysis engines of the backend and of the API       *)
(* layer that returns their results:                                       *)
(*   backend/ml/dptad_detector.py   (DPTAD, dual-path anomaly detection)   *)
(*   backend/ml/siwtl_calculator.py (SIWTL, smart weighted ideal lap)      *)
(*   backend/api/ml_analysis.py     (cleaning of the response content)     *)
(*                                                                         *)
(* The module holds four state machines over disjoint variables:           *)
(*   SpecSingleton  the lazily created module-level engine instances       *)
(*   SpecDptad      analyze_driver_anomalies on one telemetry table        *)
(*   SpecSiwtl      SIWTLCalculator(...) and calculate_siwtl on one input  *)
(*   SpecBoundary   one endpoint cleaning the object it returns            *)
(* Each machine leaves the variables of the others at their idle value.    *)
(*                                                                         *)
(* Floating point numbers are fixed-point integers: a score or a severity  *)
(* x is held as the integer x * Scale, divisions truncate.                 *)
(***************************************************************************)
EXTENDS Integers, Sequences, FiniteSets, TLC

VARIABLES
    \* ---- SpecSingleton
    global_instance,  \* the module globals _dptad_detector / _siwtl_calculator
    objects,          \* per engine: how many times its constructor has run
    pc,               \* per thread: position inside get_*()
    callee,           \* per thread: the getter it is running
    fresh,            \* per thread: the object its constructor call returned
    returned          \* per thread: the instance the getter returned

svars == <<global_instance, objects, pc, callee, fresh, returned>>

VARIABLES
    \* ---- SpecDptad
    detector,         \* the DPTADDetector's configuration (self.*)
    telemetry_data,   \* the telemetry table handed to detect_anomalies
    dpc,              \* position inside detect_anomalies
    signal_i,         \* loop index into the signals list
    analysed_signal,  \* signal_name of the iteration that ran both paths last
    slow_anomalies,   \* slow path candidates of the signal analysed last
    spike_groups,     \* spike_groups of the fast path of that signal
    fast_anomalies,   \* fast path candidates of the signal analysed last
    reconciled,       \* _reconcile_paths' result for the signal analysed last
    anomalies,        \* the list detect_anomalies accumulates
    anomaly_df,       \* what detect_anomalies returned
    summary,          \* what get_anomaly_summary returned
    analysis          \* what analyze_driver_anomalies returned

dvars == <<detector, telemetry_data, dpc, signal_i, analysed_signal, slow_anomalies,
           spike_groups, fast_anomalies, reconciled, anomalies, anomaly_df, summary,
           analysis>>

VARIABLES
    \* ---- SpecSiwtl
    calculator,        \* the SIWTLCalculator's configuration (self.*)
    driver_data,       \* the lap table handed to calculate_siwtl
    sector_data,       \* the sector table, or no table
    siwtl_telemetry,   \* calculate_siwtl's telemetry_data, or no table
    wpc,               \* position inside calculate_siwtl
    valid_laps,        \* row labels of the laps with a realistic lap time
    theoretical_best,  \* _calculate_theoretical_best's result
    sector_weights,    \* _calculate_sector_weights' result
    siwtl_result,      \* what calculate_siwtl returned
    raised,            \* the exception calculate_siwtl raised
    first_result,      \* what an earlier call on the same input returned
    init_args,         \* the five arguments SIWTLCalculator(...) is called with
    logged             \* the warnings the module's logger has recorded

wvars == <<calculator, driver_data, sector_data, siwtl_telemetry, wpc, valid_laps,
           theoretical_best, sector_weights, siwtl_result, raised, first_result,
           init_args, logged>>

VARIABLES
    \* ---- SpecBoundary
    endpoint,          \* the endpoint that answers
    payload,           \* the object it is about to return
    content,           \* the cleaned object, the content of its response
    bpc                \* position inside the endpoint

bvars == <<endpoint, payload, content, bpc>>

vars == <<svars, dvars, wvars, bvars>>

(***************************************************************************)
(* Generic helpers                                                         *)
(***************************************************************************)
Min(a, b) == IF a <= b THEN a ELSE b
Max(a, b) == IF a >= b THEN a ELSE b
Abs(a) == IF a < 0 THEN -a ELSE a

None == "None"

(***************************************************************************)
(* Numbers                                                                 *)
(***************************************************************************)
\* The readings of the clock.
MaxClock == 2

\* The fixed-point unit: the float x is the integer x * Scale.
Scale == 1000

\* A float that is -inf (a positive number divided by -0.0).
NegInf == (-1000000) * Scale

RECURSIVE ISqrtBetween(_, _, _)
\* The largest r in lo..hi with r * r <= v (lo * lo <= v is given).
ISqrtBetween(v, lo, hi) ==
    IF lo >= hi THEN lo
    ELSE LET mid == (lo + hi + 1) \div 2
         IN  IF mid * mid <= v THEN ISqrtBetween(v, mid, hi)
             ELSE ISqrtBetween(v, lo, mid - 1)

\* floor(sqrt(v)) for 0 <= v < 2^31
ISqrt(v) == ISqrtBetween(v, 0, 46340)

\* A numpy array or pandas series is a sequence: the element at Python index
\* i is x[i + 1].  Array(s) is s with every element evaluated, once.
Array(s) == s \o <<>>

RECURSIVE SumFn(_, _, _)
\* x[lo] + ... + x[hi] in Python indices (both ends included)
SumFn(x, lo, hi) == IF lo > hi THEN 0 ELSE x[lo + 1] + SumFn(x, lo + 1, hi)

RECURSIVE Unique(_)
\* Series.unique: the distinct values in order of first appearance
Unique(s) ==
    IF s = <<>> THEN <<>>
    ELSE LET rest == Unique(SubSeq(s, 1, Len(s) - 1))
             last == s[Len(s)]
         IN  IF \E k \in 1..Len(rest) : rest[k] = last THEN rest
             ELSE Append(rest, last)

\* The integers lo..hi as an ascending sequence.
Range(lo, hi) == [k \in 1..(IF hi >= lo THEN hi - lo + 1 ELSE 0) |-> lo + k - 1]

\* np.std of the array f of length n (population standard deviation), in Scale
\* units: sqrt(n * sum(x^2) - sum(x)^2) / n.
NpStd(f, n) ==
    LET s1 == SumFn(f, 0, n - 1)
        s2 == SumFn(Array([k \in 1..n |-> f[k] * f[k]]), 0, n - 1)
    IN  (ISqrt((n * s2 - s1 * s1) * 10000) * Scale) \div (100 * n)

\* min(magnitude / threshold, 10.0) on numpy floats, both in Scale units;
\* `factor` is the configured multiplier the threshold was made with. A zero
\* threshold is +0.0 or -0.0 by the sign of the factor, and a positive
\* magnitude divided by it is +inf or -inf.
ClippedRatio(magnitude, threshold, factor) ==
    IF threshold = 0
    THEN (IF factor < 0 THEN NegInf ELSE 10 * Scale)
    ELSE Min((magnitude * Scale) \div threshold, 10 * Scale)

(***************************************************************************)
(* DPTAD: the telemetry table                                              *)
(*                                                                         *)
(* A table has n rows, an optional 'timestamp' column and signal columns.  *)
(* A signal column is a trend (level a before row s, level b from row s)   *)
(* plus isolated spikes (row -> height).  scipy's filters are not part of  *)
(* the repository: the zero-phase low-pass view of a column is taken to be *)
(* its trend and the band-pass view its spikes.                            *)
(***************************************************************************)
TrendAt(col, i) == IF i < col.trend[3] THEN col.trend[1] ELSE col.trend[2]

SpikeAt(col, i) ==
    IF \E sp \in col.spikes : sp[1] = i
    THEN (CHOOSE sp \in col.spikes : sp[1] = i)[2]
    ELSE 0

\* telemetry_data[signal_name].values
SignalData(col, n) ==
    Array([k \in 1..n |-> TrendAt(col, k - 1) + SpikeAt(col, k - 1)])

\* signal.filtfilt(b, a, signal_data) with the low-pass coefficients
FiltFiltLow(col, n) == Array([k \in 1..n |-> TrendAt(col, k - 1)])

\* signal.filtfilt(b, a, signal_data) with the band-pass coefficients
FiltFiltBand(col, n) == Array([k \in 1..n |-> SpikeAt(col, k - 1)])

\* signal.filtfilt(b, a, signal_data) with the high-pass coefficients: the
\* trend is removed as by the band-pass.
FiltFiltHigh(col, n) == Array([k \in 1..n |-> SpikeAt(col, k - 1)])

\* telemetry_data.get('timestamp', range(len(signal_data)))[i]
Timestamp(table, i) ==
    IF table.timestamp = "range" THEN i ELSE 2 * i + 1

(***************************************************************************)
(* Module-level singletons: get_dptad_detector / get_siwtl_calculator      *)
(***************************************************************************)
\* Number of threads calling the getters for the first time.
NThreads == 3

Threads == 1..NThreads

\* Python's None in a variable that holds an object reference; the k-th object
\* an engine's constructor returned is <<k>>.
NoObject == <<>>

\* The two module globals; each getter reads and writes its own.
Globals == {"_dptad_detector", "_siwtl_calculator"}

\* The module has been imported, no getter has been called.
SingletonIdle ==
    /\ global_instance = [g \in Globals |-> NoObject]
    /\ objects = [g \in Globals |-> 0]
    /\ pc = [t \in Threads |-> "idle"]
    /\ callee = [t \in Threads |-> None]
    /\ fresh = [t \in Threads |-> NoObject]
    /\ returned = [t \in Threads |-> NoObject]

\* A thread enters one of the two getters.
Call(t, g) ==
    /\ pc[t] = "idle"
    /\ pc' = [pc EXCEPT ![t] = "check"]
    /\ callee' = [callee EXCEPT ![t] = g]
    /\ UNCHANGED <<global_instance, objects, fresh, returned, dvars, wvars, bvars>>

\* `if _dptad_detector is None:` reads the global, no lock is held.
CheckNone(t) ==
    /\ pc[t] = "check"
    /\ pc' = [pc EXCEPT ![t] =
                IF global_instance[callee[t]] = NoObject THEN "construct" ELSE "return"]
    /\ UNCHANGED <<global_instance, objects, callee, fresh, returned, dvars, wvars, bvars>>

\* `DPTADDetector()`: the constructor runs to completion on a new object,
\* which only this thread can reach until it is stored.
Construct(t) ==
    /\ pc[t] = "construct"
    /\ objects' = [objects EXCEPT ![callee[t]] = @ + 1]
    /\ fresh' = [fresh EXCEPT ![t] = <<objects[callee[t]] + 1>>]
    /\ pc' = [pc EXCEPT ![t] = "store"]
    /\ UNCHANGED <<global_instance, callee, returned, dvars, wvars, bvars>>

\* `_dptad_detector = <new object>` writes the global.
StoreGlobal(t) ==
    /\ pc[t] = "store"
    /\ global_instance' = [global_instance EXCEPT ![callee[t]] = fresh[t]]
    /\ pc' = [pc EXCEPT ![t] = "return"]
    /\ UNCHANGED <<objects, callee, fresh, returned, dvars, wvars, bvars>>

\* `return _dptad_detector` reads the global again.
Return(t) ==
    /\ pc[t] = "return"
    /\ returned' = [returned EXCEPT ![t] = global_instance[callee[t]]]
    /\ pc' = [pc EXCEPT ![t] = "done"]
    /\ UNCHANGED <<global_instance, objects, callee, fresh, dvars, wvars, bvars>>

(***************************************************************************)
(* DPTAD: DPTADDetector                                                    *)
(***************************************************************************)
\* `nyquist = 0.5 * 100`, in hundredths of a Hz like the cut-offs.
Nyquist == 50 * 100

\* signal.butter(3, low, btype='low') accepts 0 < low < 1.
LowPassDesignOk(self) == 0 < self.slow_cutoff /\ self.slow_cutoff < Nyquist

\* signal.butter(3, [low, high], btype='band') accepts 0 < low < high < 1,
\* with high = min(self.fast_high / nyquist, 0.99).
BandPassDesignOk(self) ==
    LET high == Min(self.fast_high * 100, 99 * Nyquist)
    IN  0 < self.fast_low /\ self.fast_low * 100 < high

\* signal.butter(3, low, btype='high') accepts 0 < low < 1.
HighPassDesignOk(self) == 0 < self.fast_low /\ self.fast_low < Nyquist

\* padlen = 3 * max(len(a), len(b)); an order-3 low-pass or high-pass has 4
\* coefficients, an order-3 band-pass 7.
PadLen(btype) == IF btype = "band" THEN 3 * 7 ELSE 3 * 4

\* pd.Series.rolling(w, center=True).mean() is defined at row i when its
\* window x[i + off - w + 1 .. i + off], off = (w - 1) // 2, is inside 0..n-1.
RollingLo(i, w) == i + ((w - 1) \div 2) - w + 1
RollingHi(i, w) == i + ((w - 1) \div 2)
RollingValid(i, n, w) == RollingLo(i, w) >= 0 /\ RollingHi(i, w) <= n - 1

\* The rolling mean in Scale units (0 stands where the result is NaN).
RollingMean(x, n, w) ==
    Array([k \in 1..n |->
        IF RollingValid(k - 1, n, w)
        THEN (SumFn(x, RollingLo(k - 1, w), RollingHi(k - 1, w)) * Scale) \div w
        ELSE 0])

\* rolling_mean.iloc[lo:hi].mean(): the mean of the entries that are not NaN.
\* The rows with a value are those from w - 1 - off to n - 1 - off.
ILocMean(rm, lo, hi, n, w) ==
    LET off == (w - 1) \div 2
        vlo == Max(lo, w - 1 - off)
        vhi == Min(hi - 1, n - 1 - off)
    IN  SumFn(rm, vlo, vhi) \div (vhi - vlo + 1)

\* DriftPoints emitting a candidate also where the drift equals the
\* threshold (>= for >).
DriftPoints_Inclusive(self, table, signal_name, drift, window_size, drift_threshold) ==
    LET hits == SelectSeq(Range(1, Len(drift)),
                          LAMBDA k : Abs(drift[k]) >= drift_threshold)
    IN  [h \in 1..Len(hits) |->
          [timestamp |-> Timestamp(table, window_size + hits[h] - 1),
           type |-> "slow_drift",
           severity |-> ClippedRatio(Abs(drift[hits[h]]), drift_threshold,
                                     self.drift_threshold),
           signal |-> signal_name,
           drift_magnitude |-> drift[hits[h]],
           path |-> "slow"]]

\* The loop of _slow_path_analysis over the rows window_size..n-window_size-1
\* (drift[k] is current_trend - recent_trend at row window_size + k - 1).
DriftPoints(self, table, signal_name, drift, window_size, drift_threshold) ==
    LET hits == SelectSeq(Range(1, Len(drift)),
                          LAMBDA k : Abs(drift[k]) > drift_threshold)
    IN  [h \in 1..Len(hits) |->
          [timestamp |-> Timestamp(table, window_size + hits[h] - 1),
           type |-> "slow_drift",
           severity |-> ClippedRatio(Abs(drift[hits[h]]), drift_threshold,
                                     self.drift_threshold),
           signal |-> signal_name,
           drift_magnitude |-> drift[hits[h]],
           path |-> "slow"]]

\* current_trend - recent_trend at every row of the loop of _slow_path_analysis
TrendDrift(rolling_mean, n, window_size) ==
    Array([k \in 1..Max(n - 2 * window_size, 0) |->
        LET i == window_size + k - 1
        IN    ILocMean(rolling_mean, i, i + window_size, n, window_size)
            - ILocMean(rolling_mean, i - window_size, i, n, window_size)])

\* DPTADDetector._slow_path_analysis
SlowPathAnalysis(self, table, signal_name) ==
    LET n == table.rows
        col == table.columns[signal_name]
        window_size == Min(n \div 10, 50)
    IN  IF n = 0 THEN <<>>
        ELSE IF ~LowPassDesignOk(self) THEN <<>>
        ELSE IF n <= PadLen("low") THEN <<>>
        ELSE IF window_size < 5 THEN <<>>
        ELSE
          LET filtered_signal == FiltFiltLow(col, n)
              rolling_mean == RollingMean(filtered_signal, n, window_size)
          IN  DriftPoints(self, table, signal_name,
                          TrendDrift(rolling_mean, n, window_size), window_size,
                          (NpStd(filtered_signal, n) * self.drift_threshold) \div 100)

RECURSIVE GroupLoop_Strict(_, _, _, _, _)
\* GroupLoop keeping an index in the group only when it is closer than
\* min_separation to the one before (< for <=).
GroupLoop_Strict(spike_indices, i, groups, current_group, min_separation) ==
    IF i > Len(spike_indices) THEN Append(groups, current_group)
    ELSE IF spike_indices[i] - spike_indices[i - 1] < min_separation
         THEN GroupLoop_Strict(spike_indices, i + 1, groups,
                               Append(current_group, spike_indices[i]), min_separation)
         ELSE GroupLoop_Strict(spike_indices, i + 1, Append(groups, current_group),
                               <<spike_indices[i]>>, min_separation)

RECURSIVE GroupLoop(_, _, _, _, _)
\* the for loop of _group_spikes, at position i (1-based) of spike_indices
GroupLoop(spike_indices, i, groups, current_group, min_separation) ==
    IF i > Len(spike_indices) THEN Append(groups, current_group)
    ELSE IF spike_indices[i] - spike_indices[i - 1] <= min_separation
         THEN GroupLoop(spike_indices, i + 1, groups,
                        Append(current_group, spike_indices[i]), min_separation)
         ELSE GroupLoop(spike_indices, i + 1, Append(groups, current_group),
                        <<spike_indices[i]>>, min_separation)

\* DPTADDetector._group_spikes
GroupSpikes(spike_indices, min_separation) ==
    IF Len(spike_indices) = 0 THEN <<>>
    ELSE GroupLoop(spike_indices, 2, <<>>, <<spike_indices[1]>>, min_separation)

\* group[np.argmax(np.abs(filtered_signal[group]))]: the first row of the
\* group with the largest magnitude.
PeakIdx(filtered_signal, group) ==
    LET k == CHOOSE k \in 1..Len(group) :
                /\ \A j \in 1..Len(group) :
                      Abs(filtered_signal[group[j] + 1]) <= Abs(filtered_signal[group[k] + 1])
                /\ \A j \in 1..(k - 1) :
                      Abs(filtered_signal[group[j] + 1]) < Abs(filtered_signal[group[k] + 1])
    IN  group[k]

\* FastFilter without the high-pass fallback: a failed band-pass design ends
\* the fast path.
FastFilter_NoFallback(self, table, signal_name) ==
    LET n == table.rows
        col == table.columns[signal_name]
    IN  IF n = 0 THEN <<>>
        ELSE IF BandPassDesignOk(self)
             THEN (IF n <= PadLen("band") THEN <<>> ELSE <<FiltFiltBand(col, n)>>)
        ELSE <<>>

\* The filtering part of _fast_path_analysis: <<filtered_signal>>, or <<>>
\* where the method returns [] before it has a filtered signal.  A failed
\* design raises ValueError inside the try block.
FastFilter(self, table, signal_name) ==
    LET n == table.rows
        col == table.columns[signal_name]
    IN  IF n = 0 THEN <<>>
        ELSE IF BandPassDesignOk(self)
             THEN (IF n <= PadLen("band") THEN <<>> ELSE <<FiltFiltBand(col, n)>>)
        ELSE IF HighPassDesignOk(self)
             THEN (IF n <= PadLen("high") THEN <<>> ELSE <<FiltFiltHigh(col, n)>>)
        ELSE <<>>

\* `spike_threshold = signal_std * self.spike_threshold`, in Scale units
SpikeThreshold(self, filtered_signal) ==
    (NpStd(filtered_signal, Len(filtered_signal)) * self.spike_threshold) \div 100

\* `np.where(np.abs(filtered_signal) > spike_threshold)[0]`
SpikeIndices(filtered_signal, spike_threshold) ==
    SelectSeq(Range(0, Len(filtered_signal) - 1),
              LAMBDA i : Abs(filtered_signal[i + 1]) * Scale > spike_threshold)

\* `min_separation=5` at the call of _group_spikes
min_separation == 5

\* The local spike_groups of _fast_path_analysis (<<>> when it returned early).
SpikeGroups(self, table, signal_name) ==
    LET filtered == FastFilter(self, table, signal_name)
    IN  IF filtered = <<>> THEN <<>>
        ELSE GroupSpikes(SpikeIndices(filtered[1], SpikeThreshold(self, filtered[1])),
                         min_separation)

\* `spike_types` of _classify_spike
spike_types ==
    [brake |-> [high |-> "brake_spike", negative |-> "brake_release_error"],
     throttle |-> [high |-> "throttle_stab", negative |-> "lift_hesitation"],
     speed |-> [negative |-> "lock_up", high |-> "traction_loss"],
     steering_angle |-> [high |-> "overcorrection",
                         oscillating |-> "steering_instability"]]

\* DPTADDetector._classify_spike; the signal names are in lower case, so
\* signal_name.lower() is signal_name.
ClassifySpike(signal_name, magnitude, raw_value) ==
    LET signal_category == signal_name
    IN  IF signal_category \in DOMAIN spike_types
        THEN IF raw_value < 0 /\ "negative" \in DOMAIN spike_types[signal_category]
             THEN spike_types[signal_category].negative
             ELSE IF "high" \in DOMAIN spike_types[signal_category]
                  THEN spike_types[signal_category].high
                  ELSE signal_category \o "_anomaly"
        ELSE signal_category \o "_anomaly"

\* The loop of _fast_path_analysis over spike_groups.
SpikePoints(self, table, signal_name, filtered_signal, spike_threshold, groups) ==
    [g \in 1..Len(groups) |->
        LET peak_idx == PeakIdx(filtered_signal, groups[g])
            spike_magnitude == Abs(filtered_signal[peak_idx + 1]) * Scale
        IN  [timestamp |-> Timestamp(table, peak_idx),
             type |-> "fast_spike",
             severity |-> ClippedRatio(spike_magnitude, spike_threshold,
                                       self.spike_threshold),
             signal |-> signal_name,
             spike_magnitude |-> spike_magnitude,
             spike_subtype |->
                 ClassifySpike(signal_name, spike_magnitude,
                               SignalData(table.columns[signal_name], table.rows)[peak_idx + 1]),
             path |-> "fast"]]

\* DPTADDetector._fast_path_analysis
FastPathAnalysis(self, table, signal_name) ==
    LET filtered == FastFilter(self, table, signal_name)
    IN  IF filtered = <<>> THEN <<>>
        ELSE SpikePoints(self, table, signal_name, filtered[1],
                         SpikeThreshold(self, filtered[1]),
                         SpikeGroups(self, table, signal_name))

\* `temporal_window = 10`
temporal_window == 10

\* NearbySlow with the window's boundary left out (< for <=).
NearbySlow_Strict(slow, fast) ==
    SelectSeq(slow, LAMBDA s : Abs(s.timestamp - fast.timestamp) < temporal_window)

\* The slow candidates within the window of one fast candidate, in list order.
NearbySlow(slow, fast) ==
    SelectSeq(slow, LAMBDA s : Abs(s.timestamp - fast.timestamp) <= temporal_window)

RECURSIVE MaxSeverity(_)
\* max(s['severity'] for s in <non-empty list>)
MaxSeverity(list) ==
    IF Len(list) = 1 THEN list[1].severity
    ELSE Max(list[1].severity, MaxSeverity(Tail(list)))

\* ReconcileFast testing slow_anomalies where the code tests nearby_slow.
ReconcileFast_AnySlow(slow, fast, signal_name) ==
    IF Len(slow) > 0
    THEN [timestamp |-> fast.timestamp,
          type |-> "compound",
          severity |-> Max(fast.severity, MaxSeverity(slow)),
          signal |-> signal_name,
          fast_component |-> <<fast>>,
          slow_component |-> <<slow[1]>>]
    ELSE [timestamp |-> fast.timestamp,
          type |-> "driver_mistake",
          severity |-> fast.severity,
          signal |-> signal_name,
          fast_component |-> <<fast>>,
          slow_component |-> <<>>]

\* The record _reconcile_paths appends for one fast candidate.
ReconcileFast(slow, fast, signal_name) ==
    LET nearby_slow == NearbySlow(slow, fast)
    IN  IF Len(nearby_slow) > 0
        THEN [timestamp |-> fast.timestamp,
              type |-> "compound",
              severity |-> Max(fast.severity, MaxSeverity(nearby_slow)),
              signal |-> signal_name,
              fast_component |-> <<fast>>,
              slow_component |-> <<nearby_slow[1]>>]
        ELSE [timestamp |-> fast.timestamp,
              type |-> "driver_mistake",
              severity |-> fast.severity,
              signal |-> signal_name,
              fast_component |-> <<fast>>,
              slow_component |-> <<>>]

\* IsolatedSlow with the window's boundary left out (< for <=).
IsolatedSlow_Strict(slow, fast_anoms) ==
    LET fast_times == {fast_anoms[k].timestamp : k \in 1..Len(fast_anoms)}
    IN  ~\E ft \in fast_times : Abs(slow.timestamp - ft) < temporal_window

\* Whether _reconcile_paths finds no fast candidate near a slow candidate.
IsolatedSlow(slow, fast_anoms) ==
    LET fast_times == {fast_anoms[k].timestamp : k \in 1..Len(fast_anoms)}
    IN  ~\E ft \in fast_times : Abs(slow.timestamp - ft) <= temporal_window

\* The record _reconcile_paths appends for one isolated slow candidate.
ReconcileSlow(slow, signal_name) ==
    [timestamp |-> slow.timestamp,
     type |-> "degradation",
     severity |-> slow.severity,
     signal |-> signal_name,
     fast_component |-> <<>>,
     slow_component |-> <<slow>>]

\* DPTADDetector._reconcile_paths
ReconcilePaths(slow_anoms, fast_anoms, signal_name) ==
    LET isolated == SelectSeq(slow_anoms, LAMBDA s : IsolatedSlow(s, fast_anoms))
    IN  [k \in 1..Len(fast_anoms) |->
            ReconcileFast(slow_anoms, fast_anoms[k], signal_name)]
        \o [k \in 1..Len(isolated) |-> ReconcileSlow(isolated[k], signal_name)]

RECURSIVE InsertBySeverity(_, _)
\* r placed after the last record of the descending list whose severity is
\* not smaller.
InsertBySeverity(sorted, r) ==
    IF sorted = <<>> THEN <<r>>
    ELSE IF Head(sorted).severity >= r.severity
         THEN <<Head(sorted)>> \o InsertBySeverity(Tail(sorted), r)
         ELSE <<r>> \o sorted

\* The rows left in the order they were found (no sort_values).
SortValues_Unsorted(list) == list

RECURSIVE SortValues(_)
\* anomaly_df.sort_values('severity', ascending=False)
SortValues(list) ==
    IF list = <<>> THEN <<>>
    ELSE InsertBySeverity(SortValues(SubSeq(list, 1, Len(list) - 1)), list[Len(list)])

\* `signals = ['speed', 'throttle', 'brake', 'steering_angle']`
DefaultSignals == <<"speed", "throttle", "brake", "steering_angle">>

(***************************************************************************)
(* DPTAD: inputs and detect_anomalies                                      *)
(***************************************************************************)
\* The longest telemetry table.
MaxRows == 50

\* Row counts: empty; no longer than either padding length; long enough for
\* the fast path only (window_size < 5); long enough for both paths.
RowCounts == {0, PadLen("low"), MaxRows - 20, MaxRows}

\* Trends of a column of n rows: flat, a step up and a step down at mid-table.
Trends(n) == {<<0, 0, 0>>, <<0, 1, n \div 2>>, <<2, 0, n \div 2>>}

\* Rows a spike may sit on, relative to the step of the trend.
SpikeRows(n) ==
    {r \in {n \div 2 - 16, n \div 2 - 15, n \div 2 - 10, n \div 2, n \div 2 + 3} :
        0 <= r /\ r < n}

SpikeHeights == {2, -1}

\* At most two spikes, on different rows.
SpikeSets(n) ==
    {sp \in SUBSET (SpikeRows(n) \X SpikeHeights) :
        /\ Cardinality(sp) <= 2
        /\ \A a, b \in sp : a[1] = b[1] => a = b}

Columns(n) == [trend : Trends(n), spikes : SpikeSets(n)]

\* A second signal column, for tables with two signals.
BrakeColumns(n) ==
    {[trend |-> <<0, 1, n \div 2>>, spikes |-> {}],
     [trend |-> <<0, 0, 0>>, spikes |-> {<<n \div 2, 2>>}]}

\* A steering column: flat, one spike to either side.
SteeringColumns(n) ==
    {[trend |-> <<0, 0, 0>>, spikes |-> {<<n \div 2, h>>}] : h \in SpikeHeights}

\* Tables with the one signal column 'speed' and no 'timestamp' column.
PlainTables ==
    UNION {{[rows |-> n, timestamp |-> "range", columns |-> [s \in {"speed"} |-> c]] :
                c \in Columns(n)} : n \in RowCounts}

\* Those, the same with a 'timestamp' column holding lap numbers, tables with
\* the two signal columns 'speed' and 'brake', tables with the one column
\* 'steering_angle' and tables with the same column as 'throttle' and 'brake'.
Tables ==
    PlainTables
    \cup UNION {
        {[rows |-> n, timestamp |-> "lap_number",
          columns |-> [s \in {"speed"} |-> c]] : c \in Columns(n)}
        \cup
        {[rows |-> n, timestamp |-> "range",
          columns |-> [s \in {"speed", "brake"} |->
                          IF s = "speed" THEN c ELSE b]] :
            c \in Columns(n), b \in BrakeColumns(n)}
        \cup
        {[rows |-> n, timestamp |-> "range",
          columns |-> [s \in {"steering_angle"} |-> c]] : c \in SteeringColumns(n)}
        \cup
        {[rows |-> n, timestamp |-> "range",
          columns |-> [s \in {"throttle", "brake"} |-> c]] : c \in SteeringColumns(n)}
        : n \in RowCounts}

\* DPTADDetector.__init__ stores its arguments; cut-offs in hundredths of a
\* Hz, thresholds in hundredths.  The first is DPTADDetector().
Detector(st, dt) ==
    [slow_cutoff |-> 10, fast_low |-> 50, fast_high |-> 500,
     spike_threshold |-> st, drift_threshold |-> dt]

\* DPTADDetector(), the instance get_dptad_detector makes
DefaultDetector == Detector(300, 15)

\* Detectors made with other thresholds: a small one, negative ones, and one
\* of 1.43 standard deviations, with which a lone spike of height -1 in
\* MaxRows rows has the severity 5.0 in this arithmetic.
OtherDetectors ==
    {Detector(30, 15), Detector(-300, 15), Detector(300, -15), Detector(143, 15)}

\* Detectors whose band-pass design fails: the lower cut-off above the upper
\* one (the high-pass design succeeds), a lower cut-off of 0 and one above
\* the Nyquist frequency (the high-pass design fails too).
CutoffDetectors ==
    {[DefaultDetector EXCEPT !.fast_low = 500, !.fast_high = 100],
     [DefaultDetector EXCEPT !.fast_low = 0],
     [DefaultDetector EXCEPT !.fast_low = 6000]}

\* Tables of as many rows as a padding length, and of MaxRows rows, with a
\* flat or a rising 'speed' column that has at most one spike.
PadTables ==
    UNION {{[rows |-> n, timestamp |-> "range", columns |-> [s \in {"speed"} |-> c]] :
                c \in {d \in Columns(n) : /\ Cardinality(d.spikes) <= 1
                                           /\ d.trend[1] = 0}} :
           n \in {PadLen("high"), PadLen("band"), MaxRows}}

\* The engine and the table of one call: the default engine on every table,
\* the others on the plain tables, those with other cut-offs on the tables
\* around the padding lengths.
DptadInputs ==
    ({DefaultDetector} \X Tables) \cup (OtherDetectors \X PlainTables)
        \cup (CutoffDetectors \X PadTables)

BoundaryIdle ==
    /\ endpoint = "none"
    /\ payload = <<>>
    /\ content = <<>>
    /\ bpc = "idle"

SiwtlIdle ==
    /\ calculator = None
    /\ driver_data = None
    /\ sector_data = None
    /\ siwtl_telemetry = None
    /\ wpc = "idle"
    /\ valid_laps = <<>>
    /\ theoretical_best = <<>>
    /\ sector_weights = <<>>
    /\ siwtl_result = <<>>
    /\ raised = None
    /\ first_result = <<>>
    /\ init_args = <<>>
    /\ logged = <<>>

(***************************************************************************)
(* DPTAD: get_anomaly_summary and analyze_driver_anomalies                 *)
(***************************************************************************)
\* A message made from an f-string: its text and the signal it names.
Message(text, signal) == <<text, signal>>

\* The values of column `field` of the data frame, in row order.
ColumnOf(df, field) == Array([k \in 1..Len(df) |-> df[k][field]])

\* `df[field].value_counts().to_dict()`: how often each value occurs
ValueCounts(df, field) ==
    [v \in {df[k][field] : k \in 1..Len(df)} |->
        Cardinality({k \in 1..Len(df) : df[k][field] = v})]

\* The values `value_counts().index[0]` can be: the most frequent ones (the
\* order of equally frequent values is not fixed by value_counts).
MostFrequent(df, field) ==
    LET counts == ValueCounts(df, field)
    IN  {v \in DOMAIN counts : \A u \in DOMAIN counts : counts[u] <= counts[v]}

\* `df['severity'].mean()`; the mean of a column holding -inf is -inf
SeverityMean(df) ==
    LET severity == ColumnOf(df, "severity")
    IN  IF \E k \in 1..Len(df) : severity[k] = NegInf THEN NegInf
        ELSE SumFn(severity, 0, Len(df) - 1) \div Len(df)

\* `df['severity'].max()`
SeverityMax(df) ==
    LET severity == ColumnOf(df, "severity")
    IN  CHOOSE s \in {severity[k] : k \in 1..Len(df)} :
            \A k \in 1..Len(df) : severity[k] <= s

\* The rule cascade of _generate_summary_recommendation on the dominant type
\* and the mean severity (Scale units).
RecommendationFor(dominant_type, dominant_signal, avg_severity) ==
    CASE dominant_type = "driver_mistake" ->
            IF avg_severity > 7 * Scale
            THEN Message("Critical: Focus immediately on {dominant_signal} technique. Multiple driver errors detected.", dominant_signal)
            ELSE IF avg_severity > 4 * Scale
            THEN Message("Important: Improve {dominant_signal} consistency. Driver technique issues identified.", dominant_signal)
            ELSE Message("Minor technique adjustments needed in {dominant_signal} control.", dominant_signal)
      [] dominant_type = "degradation" ->
            IF avg_severity > 6 * Scale
            THEN Message("Equipment attention required: {dominant_signal} showing significant degradation.", dominant_signal)
            ELSE Message("Monitor {dominant_signal} performance trends. Early degradation detected.", dominant_signal)
      [] dominant_type = "compound" ->
            Message("Address both technique and equipment issues in {dominant_signal}.", dominant_signal)
      [] OTHER -> Message("Review performance data and adjust accordingly.", "")

\* _generate_summary_recommendation, `dominant_type` and `dominant_signal`
\* being the heads of the two value_counts
GenerateSummaryRecommendation(df, dominant_type, dominant_signal) ==
    IF Len(df) = 0 THEN Message("Maintain current performance level.", "")
    ELSE RecommendationFor(dominant_type, dominant_signal, SeverityMean(df))

\* The summary get_anomaly_summary returns for an empty data frame.
EmptySummary ==
    [total_anomalies |-> 0,
     severity_avg |-> 0,
     types |-> <<>>,
     signals_affected |-> <<>>,
     recommendation |->
         Message("No anomalies detected. Performance is consistent.", "")]

\* HighSeverityCount counting a severity of exactly 5.0 too (>= for >).
HighSeverityCount_Inclusive(df) ==
    Cardinality({k \in 1..Len(df) : df[k].severity >= 5 * Scale})

\* `len(anomalies_df[anomalies_df['severity'] > 5.0])`
HighSeverityCount(df) ==
    Cardinality({k \in 1..Len(df) : df[k].severity > 5 * Scale})

\* get_anomaly_summary for a data frame with rows
AnomalySummary(df, dominant_type, dominant_signal) ==
    [total_anomalies |-> Len(df),
     severity_avg |-> SeverityMean(df),
     severity_max |-> SeverityMax(df),
     types |-> ValueCounts(df, "type"),
     signals_affected |-> Unique(ColumnOf(df, "signal")),
     high_severity_count |-> HighSeverityCount(df),
     recommendation |->
         GenerateSummaryRecommendation(df, dominant_type, dominant_signal)]

DptadIdle ==
    /\ detector = None
    /\ telemetry_data = None
    /\ dpc = "idle"
    /\ signal_i = 0
    /\ analysed_signal = None
    /\ slow_anomalies = <<>>
    /\ spike_groups = <<>>
    /\ fast_anomalies = <<>>
    /\ reconciled = <<>>
    /\ anomalies = <<>>
    /\ anomaly_df = <<>>
    /\ summary = <<>>
    /\ analysis = <<>>

DptadInit ==
    /\ \E input \in DptadInputs :
          detector = input[1] /\ telemetry_data = input[2]
    /\ dpc = "start"
    /\ signal_i = 0
    /\ analysed_signal = None
    /\ slow_anomalies = <<>>
    /\ spike_groups = <<>>
    /\ fast_anomalies = <<>>
    /\ reconciled = <<>>
    /\ anomalies = <<>>
    /\ anomaly_df = <<>>
    /\ summary = <<>>
    /\ analysis = <<>>
    /\ SingletonIdle
    /\ SiwtlIdle
    /\ BoundaryIdle

\* detect_anomalies up to its loop: the guard against empty telemetry.
DetectStart ==
    /\ dpc = "start"
    /\ IF telemetry_data.rows = 0
       THEN dpc' = "done" /\ signal_i' = signal_i
       ELSE dpc' = "loop" /\ signal_i' = 1
    /\ UNCHANGED <<detector, telemetry_data, analysed_signal, slow_anomalies, spike_groups,
                   fast_anomalies, reconciled, anomalies, anomaly_df, summary, analysis,
                   svars, wvars, bvars>>

\* One iteration of `for signal_name in signals` whose column is missing.
SkipSignal ==
    /\ dpc = "loop"
    /\ signal_i <= Len(DefaultSignals)
    /\ DefaultSignals[signal_i] \notin DOMAIN telemetry_data.columns
    /\ signal_i' = signal_i + 1
    /\ UNCHANGED <<detector, telemetry_data, analysed_signal, dpc, slow_anomalies, spike_groups,
                   fast_anomalies, reconciled, anomalies, anomaly_df, summary, analysis,
                   svars, wvars, bvars>>

\* One iteration of `for signal_name in signals`: both paths, reconciliation,
\* anomalies.extend(reconciled).
AnalyzeSignal ==
    /\ dpc = "loop"
    /\ signal_i <= Len(DefaultSignals)
    /\ DefaultSignals[signal_i] \in DOMAIN telemetry_data.columns
    /\ LET signal_name == DefaultSignals[signal_i]
           slow == SlowPathAnalysis(detector, telemetry_data, signal_name)
           fast == FastPathAnalysis(detector, telemetry_data, signal_name)
           rec == ReconcilePaths(slow, fast, signal_name)
       IN  /\ slow_anomalies' = slow
           /\ spike_groups' = SpikeGroups(detector, telemetry_data, signal_name)
           /\ fast_anomalies' = fast
           /\ reconciled' = rec
           /\ anomalies' = anomalies \o rec
    /\ signal_i' = signal_i + 1
    /\ analysed_signal' = DefaultSignals[signal_i]
    /\ UNCHANGED <<detector, telemetry_data, dpc, anomaly_df, summary, analysis,
                   svars, wvars, bvars>>

\* After the loop: the data frame, sorted by severity when not empty.
DetectReturn ==
    /\ dpc = "loop"
    /\ signal_i > Len(DefaultSignals)
    /\ anomaly_df' = SortValues(anomalies)
    /\ dpc' = "done"
    /\ UNCHANGED <<detector, telemetry_data, analysed_signal, signal_i, slow_anomalies, spike_groups,
                   fast_anomalies, reconciled, anomalies, summary, analysis,
                   svars, wvars, bvars>>

\* `summary = detector.get_anomaly_summary(anomalies_df)`
GetAnomalySummary ==
    /\ dpc = "done"
    /\ IF Len(anomaly_df) = 0
       THEN summary' = EmptySummary
       ELSE \E dominant_type \in MostFrequent(anomaly_df, "type"),
               dominant_signal \in MostFrequent(anomaly_df, "signal") :
                summary' = AnomalySummary(anomaly_df, dominant_type, dominant_signal)
    /\ dpc' = "summarized"
    /\ UNCHANGED <<detector, telemetry_data, analysed_signal, signal_i, slow_anomalies, spike_groups,
                   fast_anomalies, reconciled, anomalies, anomaly_df, analysis,
                   svars, wvars, bvars>>

\* analyze_driver_anomalies' `return {...}`, `now` being what
\* pd.Timestamp.now() read off the clock.
AnalyzeReturn ==
    /\ dpc = "summarized"
    /\ \E now \in 1..MaxClock :
          analysis' =
              [vehicle_id |-> "vehicle_id",
               anomalies |-> anomaly_df,
               summary |-> summary,
               algorithm |-> "DPTAD v1.0 - Dual-Path Temporal Anomaly Detection",
               analysis_timestamp |-> now]
    /\ dpc' = "returned"
    /\ UNCHANGED <<detector, telemetry_data, analysed_signal, signal_i, slow_anomalies, spike_groups,
                   fast_anomalies, reconciled, anomalies, anomaly_df, summary,
                   svars, wvars, bvars>>

DptadNext ==
    \/ DetectStart
    \/ SkipSignal
    \/ AnalyzeSignal
    \/ DetectReturn
    \/ GetAnomalySummary
    \/ AnalyzeReturn

SpecDptad == DptadInit /\ [][DptadNext]_vars

SingletonNext ==
    \E t \in Threads :
        \/ \E g \in Globals : Call(t, g)
        \/ CheckNone(t)
        \/ Construct(t)
        \/ StoreGlobal(t)
        \/ Return(t)

SingletonInit == SingletonIdle /\ DptadIdle /\ SiwtlIdle /\ BoundaryIdle

SpecSingleton == SingletonInit /\ [][SingletonNext]_vars

(***************************************************************************)
(* SIWTL: tables and numbers                                               *)
(*                                                                         *)
(* A table is [columns, rows, values]: the set of its column names, its    *)
(* number of rows, and per column the sequence of that column's cells.     *)
(* Rows carry the labels 1..rows.  An optional table is <<>> (Python's     *)
(* None) or <<table>>.  Lap times are whole milliseconds, sector times     *)
(* whole seconds, temperatures whole degrees, indicators 0 or 1.           *)
(***************************************************************************)
\* A float held in a result: Null is Python's None, Some(x) the number x.
Null == <<>>
Some(x) == <<x>>

\* x / 1000 in Scale units.
Thousandths(x) == (x * Scale) \div 1000

\* The x / 100 of the source's decimal literals, in Scale units.
Hundredths(x) == (x * Scale) \div 100

RECURSIVE SumSeq(_)
SumSeq(s) == IF s = <<>> THEN 0 ELSE Head(s) + SumSeq(Tail(s))

RECURSIVE MinSeq(_)
MinSeq(s) == IF Len(s) = 1 THEN s[1] ELSE Min(s[1], MinSeq(Tail(s)))

RECURSIVE MaxSeq(_)
MaxSeq(s) == IF Len(s) = 1 THEN s[1] ELSE Max(s[1], MaxSeq(Tail(s)))

\* Series.mean / np.mean of whole values, in Scale units
MeanOf(s) == (SumSeq(s) * Scale) \div Len(s)

\* np.mean of values already in Scale units
MeanScaled(s) == SumSeq(s) \div Len(s)

\* n * sum(d^2) - sum(d)^2 over the values' distances d to their minimum
SpreadOf(s) ==
    LET lo == MinSeq(s)
        d == Array([k \in 1..Len(s) |-> s[k] - lo])
        d2 == Array([k \in 1..Len(s) |-> d[k] * d[k]])
    IN  Len(s) * SumSeq(d2) - SumSeq(d) * SumSeq(d)

\* Series.std (sample standard deviation, ddof = 1) of whole values, in Scale
\* units; a series of one value has no sample deviation and is not asked.
SeriesStd(s) ==
    (ISqrt((SpreadOf(s) * 10000) \div (Len(s) * (Len(s) - 1))) * Scale) \div 100

\* np.std (population standard deviation) of whole values, in Scale units
ArrayStd(s) == (ISqrt(SpreadOf(s) * 10000) * Scale) \div (100 * Len(s))

\* np.std of values already in Scale units
ArrayStdScaled(s) == ISqrt(SpreadOf(s)) \div Len(s)

\* max(lo, min(hi, x))
Clamp(lo, hi, x) == Max(lo, Min(hi, x))

\* The cells of `column` at the row labels `labels`, in that order.
Cells(table, column, labels) ==
    Array([k \in 1..Len(labels) |-> table.values[column][labels[k]]])

\* `driver_data[(lap_time_ms >= 120000) & (lap_time_ms <= 200000)]`: the row
\* labels of the valid laps, ascending.
ValidLapRows(table) ==
    SelectSeq(Range(1, table.rows),
              LAMBDA i : /\ table.values["lap_time_ms"][i] >= 120000
                         /\ table.values["lap_time_ms"][i] <= 200000)

\* The labels of `a` that are also labels of `b` (Index.intersection).
Intersection(a, b) ==
    SelectSeq(a, LAMBDA i : \E k \in 1..Len(b) : b[k] = i)

\* The members of the list `names` that are columns of `table`, in list order.
Available(names, table) == SelectSeq(names, LAMBDA c : c \in table.columns)

(***************************************************************************)
(* SIWTLCalculator.__init__                                                *)
(***************************************************************************)
\* The five weighting factors, given in hundredths.
Calculator(cw, sw, dw, tw, fw) ==
    [consistency_weight |-> Hundredths(cw),
     smoothness_weight |-> Hundredths(sw),
     conditions_weight |-> Hundredths(dw),
     temperature_weight |-> Hundredths(tw),
     traffic_weight |-> Hundredths(fw)]

\* SIWTLCalculator()
DefaultCalculator == Calculator(30, 25, 20, 15, 10)

\* `total_weight` of __init__
TotalWeight(self) ==
    self.consistency_weight + self.smoothness_weight + self.conditions_weight
        + self.temperature_weight + self.traffic_weight

\* `abs(total_weight - 1.0) > 0.01`: __init__ logs a warning, nothing more.
WeightsWarning(self) == Abs(TotalWeight(self) - Scale) > Hundredths(1)

(***************************************************************************)
(* The five sub-scores                                                     *)
(***************************************************************************)
\* The plausible range with its two ends taken in (>= 20, <= 80).
ValidSectorTime_Inclusive(x) == x >= 20 /\ x <= 80

\* `(sector_times > 20) & (sector_times < 80)`
ValidSectorTime(x) == x > 20 /\ x < 80

\* The row labels of the valid times of the sector column `column`, ascending.
ValidSectorRows(table, column) ==
    SelectSeq(Range(1, table.rows),
              LAMBDA i : ValidSectorTime(table.values[column][i]))

\* _calculate_consistency_score
ConsistencyScore(sector_times) ==
    IF Len(sector_times) < 2 THEN Hundredths(50)
    ELSE LET cv == (SeriesStd(sector_times) * Scale) \div MeanOf(sector_times)
         IN  Clamp(0, Scale, ((Hundredths(10) - cv) * 100) \div 9)

smoothness_signals == <<"throttle", "brake", "steering_angle">>

\* np.diff
Diff(s) == Array([k \in 1..(Len(s) - 1) |-> s[k + 1] - s[k]])

\* _calculate_smoothness_score, the telemetry being <<>> or <<table>>
SmoothnessScore(telemetry) ==
    IF telemetry = <<>> \/ telemetry[1].rows = 0 THEN Hundredths(70)
    ELSE LET table == telemetry[1]
             available_signals == Available(smoothness_signals, table)
             scored == SelectSeq(available_signals, LAMBDA s : table.rows > 1)
             smoothness_scores ==
                 Array([k \in 1..Len(scored) |->
                     (Scale * Scale)
                         \div (Scale + ArrayStd(Diff(table.values[scored[k]])))])
         IN  IF smoothness_scores = <<>> THEN Hundredths(70)
             ELSE MeanScaled(smoothness_scores)

\* _calculate_conditions_score: `valid_laps` are the row labels of the valid
\* laps, `sector_labels` those of the valid times of the sector column.
ConditionsScore(laps, labels, sectors, column, sector_labels) ==
    IF "stint_number" \in laps.columns
    THEN LET stints == Unique(Cells(laps, "stint_number", labels))
             StintLaps(stint) ==
                 SelectSeq(labels,
                           LAMBDA i : laps.values["stint_number"][i] = stint)
             StintIdx(stint) == Intersection(StintLaps(stint), sector_labels)
             with_mean ==
                 SelectSeq(stints, LAMBDA st : /\ Len(StintLaps(st)) > 2
                                               /\ Len(StintIdx(st)) > 0)
             stint_sector_means ==
                 Array([k \in 1..Len(with_mean) |->
                     MeanOf(Cells(sectors, column, StintIdx(with_mean[k])))])
         IN  IF Len(stint_sector_means) > 1
             THEN LET stint_variation == ArrayStdScaled(stint_sector_means)
                  IN  Clamp(Hundredths(30), Scale,
                            (2 * Scale - stint_variation) \div 2)
             ELSE Hundredths(75)
    ELSE Hundredths(75)

temp_cols == <<"air_temp", "track_temp", "temp_delta_from_start">>

\* The acceptable range of a temperature column: 5, 10 or 3 degrees.
TempLimit(col) ==
    CASE col = "air_temp" -> 5
      [] col = "track_temp" -> 10
      [] OTHER -> 3

\* _calculate_temperature_score
TemperatureScore(laps, labels) ==
    LET available_temp == Available(temp_cols, laps)
        scored == SelectSeq(available_temp, LAMBDA c : Len(labels) > 1)
        temp_scores ==
            Array([k \in 1..Len(scored) |->
                LET temp_data == Cells(laps, scored[k], labels)
                    temp_range == MaxSeq(temp_data) - MinSeq(temp_data)
                    limit == TempLimit(scored[k])
                IN  Clamp(Hundredths(20), Scale,
                          ((limit - Abs(temp_range)) * Scale) \div limit)])
    IN  IF temp_scores = <<>> THEN Hundredths(80) ELSE MeanScaled(temp_scores)

traffic_indicators == <<"traffic_indicator", "yellow_flag_indicator", "is_clear_lap">>

\* _calculate_traffic_score: every indicator column adds its clear laps to
\* clear_laps, total_scored_laps is the longest column.
TrafficScore(laps, labels) ==
    LET available_indicators == Available(traffic_indicators, laps)
        scored == SelectSeq(available_indicators, LAMBDA c : Len(labels) > 0)
        clear ==
            Array([k \in 1..Len(scored) |->
                LET indicator_data == Cells(laps, scored[k], labels)
                IN  IF scored[k] = "is_clear_lap" THEN SumSeq(indicator_data)
                    ELSE Len(indicator_data) - SumSeq(indicator_data)])
        clear_laps == SumSeq(clear)
        total_scored_laps == IF scored = <<>> THEN 0 ELSE Len(labels)
    IN  IF total_scored_laps > 0
        THEN Clamp(Hundredths(30), Scale, (clear_laps * Scale) \div total_scored_laps)
        ELSE Hundredths(85)

(***************************************************************************)
(* Sector weights                                                          *)
(***************************************************************************)
sector_cols == <<"sector_1_time", "sector_2_time", "sector_3_time">>

\* f's{i}'
SectorKey(i) == <<"s1", "s2", "s3">>[i]

\* A table is given and has rows: `sector_data is not None and len(..) > 0`
HasRows(table) == table # <<>> /\ table[1].rows > 0

\* _default_sector_weight
DefaultSectorWeight ==
    [consistency_score |-> Hundredths(60),
     smoothness_score |-> Hundredths(60),
     conditions_score |-> Hundredths(70),
     temperature_score |-> Hundredths(80),
     traffic_score |-> Hundredths(80),
     combined_weight |-> Hundredths(68)]

\* The record _calculate_sector_weights makes when no sector was scored.
UniformSectorWeight ==
    LET uniform_weight == Scale \div 3
    IN  [consistency_score |-> uniform_weight,
         smoothness_score |-> uniform_weight,
         conditions_score |-> uniform_weight,
         temperature_score |-> uniform_weight,
         traffic_score |-> uniform_weight,
         combined_weight |-> uniform_weight]

\* `combined_weight = (consistency_score * self.consistency_weight + ...)`
CombinedWeight(self, scores) ==
    (scores.consistency_score * self.consistency_weight
        + scores.smoothness_score * self.smoothness_weight
        + scores.conditions_score * self.conditions_weight
        + scores.temperature_score * self.temperature_weight
        + scores.traffic_score * self.traffic_weight) \div Scale

\* _calculate_single_sector_weight for the sector column `column`
SingleSectorWeight(self, sectors, column, laps, labels, telemetry) ==
    LET sector_labels == ValidSectorRows(sectors, column)
        valid_sector_times == Cells(sectors, column, sector_labels)
    IN  IF Len(valid_sector_times) < 3 THEN DefaultSectorWeight
        ELSE LET consistency_score == ConsistencyScore(valid_sector_times)
                 smoothness_score ==
                     IF telemetry # <<>> THEN SmoothnessScore(telemetry)
                     ELSE Hundredths(70)
                 conditions_score ==
                     ConditionsScore(laps, labels, sectors, column, sector_labels)
                 temperature_score == TemperatureScore(laps, labels)
                 traffic_score == TrafficScore(laps, labels)
                 scores == [consistency_score |-> consistency_score,
                            smoothness_score |-> smoothness_score,
                            conditions_score |-> conditions_score,
                            temperature_score |-> temperature_score,
                            traffic_score |-> traffic_score]
             IN  [consistency_score |-> consistency_score,
                  smoothness_score |-> smoothness_score,
                  conditions_score |-> conditions_score,
                  temperature_score |-> temperature_score,
                  traffic_score |-> traffic_score,
                  combined_weight |-> CombinedWeight(self, scores)]

\* _calculate_sector_weights: a dict from 's1'..'s3' to SectorWeight records;
\* the sector of column sector_i_time is keyed s{i}.
CalculateSectorWeights(self, laps, labels, sectors, telemetry) ==
    LET scored ==
            IF HasRows(sectors)
            THEN {i \in 1..3 : sector_cols[i] \in sectors[1].columns}
            ELSE {}
    IN  IF scored # {}
        THEN [key \in {SectorKey(i) : i \in scored} |->
                 LET i == CHOOSE j \in scored : SectorKey(j) = key
                 IN  SingleSectorWeight(self, sectors[1], sector_cols[i], laps,
                                        labels, telemetry)]
        ELSE [key \in {SectorKey(i) : i \in 1..3} |-> UniformSectorWeight]

(***************************************************************************)
(* Theoretical best                                                        *)
(***************************************************************************)
\* The lap_based result of _calculate_theoretical_best
LapBasedBest(laps, labels) ==
    LET best_lap_ms == MinSeq(Cells(laps, "lap_time_ms", labels))
    IN  [theoretical_best_lap |-> (best_lap_ms * Scale) \div 1000,
         sector_bests |-> <<>>,
         method |-> "lap_based"]

\* _calculate_theoretical_best: the i-th of the columns PRESENT is keyed s{i}
\* (`enumerate(available_sectors, 1)`); sector_bests is a dict from keys to
\* whole seconds.
CalculateTheoreticalBest(laps, labels, sectors) ==
    IF HasRows(sectors)
    THEN LET available_sectors == Available(sector_cols, sectors[1])
             ValidTimes(i) ==
                 Cells(sectors[1], available_sectors[i],
                       ValidSectorRows(sectors[1], available_sectors[i]))
             with_best == {i \in 1..Len(available_sectors) : Len(ValidTimes(i)) > 0}
             sector_bests ==
                 [key \in {SectorKey(i) : i \in with_best} |->
                     LET i == CHOOSE j \in with_best : SectorKey(j) = key
                     IN  MinSeq(ValidTimes(i))]
         IN  IF Len(available_sectors) >= 2 /\ Cardinality(with_best) >= 2
             THEN [theoretical_best_lap |->
                       SumSeq([k \in 1..3 |->
                           IF SectorKey(k) \in DOMAIN sector_bests
                           THEN sector_bests[SectorKey(k)] * Scale ELSE 0]),
                   sector_bests |-> sector_bests,
                   method |-> "sector_based"]
             ELSE LapBasedBest(laps, labels)
    ELSE LapBasedBest(laps, labels)

(***************************************************************************)
(* Composition                                                             *)
(***************************************************************************)
\* _calculate_confidence_level
ConfidenceLevel(num_laps, weights) ==
    IF num_laps >= 30 /\ Cardinality(DOMAIN weights) >= 2 THEN "High"
    ELSE IF num_laps >= 15 THEN "Medium"
    ELSE "Low"

\* `x / max(weight, 0.1)`, x and the weight in Scale units
Realistic(x, weight) == (x * Scale) \div Max(weight, Hundredths(10))

\* The keys in dict order as a sequence.
KeySeq(dict) == SelectSeq(<<"s1", "s2", "s3">>, LAMBDA key : key \in DOMAIN dict)

\* `theoretical_lap / siwtl_lap` without the clip to 1.0
AchievabilityScore_Unclipped(theoretical_lap, siwtl_lap) ==
    IF siwtl_lap = 0 THEN 10 * Scale ELSE (theoretical_lap * Scale) \div siwtl_lap

\* `achievability_score = min(1.0, theoretical_lap / siwtl_lap)`; a positive
\* numpy float divided by 0 is +inf.
AchievabilityScore(theoretical_lap, siwtl_lap) ==
    IF siwtl_lap = 0 THEN Scale ELSE Min(Scale, (theoretical_lap * Scale) \div siwtl_lap)

\* _compute_siwtl
ComputeSiwtl(best, weights, laps, labels) ==
    LET theoretical_lap == best.theoretical_best_lap
        sector_based == DOMAIN best.sector_bests # {}
        applied ==
            IF sector_based
            THEN {key \in DOMAIN best.sector_bests : key \in DOMAIN weights}
            ELSE {}
        siwtl_sectors ==
            [key \in applied |->
                [best_time |-> best.sector_bests[key] * Scale,
                 achievability_weight |-> weights[key].combined_weight,
                 realistic_time |->
                     Realistic(best.sector_bests[key] * Scale,
                               weights[key].combined_weight)]]
        avg_weight ==
            IF DOMAIN weights # {}
            THEN MeanScaled([k \in 1..Len(KeySeq(weights)) |->
                                weights[KeySeq(weights)[k]].combined_weight])
            ELSE Hundredths(75)
        siwtl_lap ==
            IF sector_based
            THEN SumSeq([k \in 1..Len(KeySeq(siwtl_sectors)) |->
                            siwtl_sectors[KeySeq(siwtl_sectors)[k]].realistic_time])
            ELSE Realistic(theoretical_lap, avg_weight)
        current_avg_lap ==
            ((SumSeq(Cells(laps, "lap_time_ms", labels)) \div Len(labels)) * Scale)
                \div 1000
    IN  [siwtl_lap |-> Some(siwtl_lap),
         theoretical_best_lap |-> Some(theoretical_lap),
         current_avg_lap |-> Some(current_avg_lap),
         potential_gain_sec |-> Some(current_avg_lap - siwtl_lap),
         achievability_score |-> Some(AchievabilityScore(theoretical_lap, siwtl_lap)),
         sector_analysis |-> siwtl_sectors,
         sector_weights |-> weights,
         confidence_level |-> ConfidenceLevel(Len(labels), weights)]

\* _create_insufficient_data_result
InsufficientDataResult ==
    [siwtl_lap |-> Null,
     theoretical_best_lap |-> Null,
     potential_gain_sec |-> Null,
     achievability_score |-> Null,
     error |-> "Insufficient valid lap data for SIWTL calculation",
     algorithm |-> "SIWTL v2.0 - Smart Weighted Ideal Lap",
     confidence_level |-> "None"]

\* `siwtl_result.update({...})`: the metadata calculate_siwtl adds, `now` being
\* what pd.Timestamp.now() read off the clock.
WithMetadata(result, self, labels, now) ==
    [key \in DOMAIN result \cup {"algorithm", "total_laps_analyzed",
                                 "calculation_timestamp", "achievability_factors"} |->
        CASE key = "algorithm" -> "SIWTL v2.0 - Smart Weighted Ideal Lap"
          [] key = "total_laps_analyzed" -> Len(labels)
          [] key = "calculation_timestamp" -> now
          [] key = "achievability_factors" -> self
          [] OTHER -> result[key]]

(***************************************************************************)
(* SIWTL: the inputs of one call                                           *)
(***************************************************************************)
\* The largest number of valid laps in a lap table.
MaxLaps == 30

\* The number of rows of a sector table, and of a telemetry table.
SectorRows == 12
TelemetryRows == 6

LapCounts == {0, 4, 5, 15, MaxLaps}

\* A lap table with `nvalid` laps inside [120000, 200000], both ends among
\* them, between one lap just below and one just above; `steady` laps have
\* constant temperatures and no traffic.
LapTable(columns, nvalid, steady) ==
    LET n == nvalid + 2
        Cell(c, i) ==
            CASE c = "lap_number" -> i
              [] c = "lap_time_ms" ->
                    IF i = 1 THEN 119999
                    ELSE IF i = n THEN 200001
                    ELSE IF i = 2 THEN 120000
                    ELSE IF i = 3 THEN 200000
                    ELSE 150000 + 1000 * (i % 4)
              [] c = "stint_number" -> IF i <= n \div 2 THEN 1 ELSE 2
              [] c = "air_temp" -> IF steady THEN 25 ELSE 25 + (i % 3)
              [] c = "track_temp" -> IF steady THEN 35 ELSE 35 + (i % 12)
              [] c = "temp_delta_from_start" -> IF steady THEN 0 ELSE i % 2
              [] c = "traffic_indicator" ->
                    IF steady THEN 0 ELSE IF i % 4 = 0 THEN 1 ELSE 0
              [] c = "yellow_flag_indicator" ->
                    IF steady THEN 0 ELSE IF i % 5 = 0 THEN 1 ELSE 0
              [] c = "is_clear_lap" ->
                    IF steady THEN 1 ELSE IF i % 4 = 0 THEN 0 ELSE 1
    IN  [columns |-> columns, rows |-> n,
         values |-> [c \in columns |-> Array([i \in 1..n |-> Cell(c, i)])]]

required_columns == {"lap_number", "lap_time_ms"}

\* The optional columns a lap table comes with.
OptionalColumns ==
    {{}, {"stint_number"}, {"air_temp"},
     {"air_temp", "track_temp", "temp_delta_from_start"},
     {"traffic_indicator"}, {"is_clear_lap"},
     {"traffic_indicator", "is_clear_lap"},
     {"traffic_indicator", "yellow_flag_indicator", "is_clear_lap"},
     {"stint_number", "air_temp", "track_temp", "temp_delta_from_start",
      "traffic_indicator", "yellow_flag_indicator", "is_clear_lap"}}

\* Lap tables with both required columns, and with one of them missing.
LapColumnSets ==
    {required_columns \cup opt : opt \in OptionalColumns}
        \cup {{"lap_time_ms"}, {"lap_number"}}

LapTables ==
    {LapTable(cols, nvalid, steady) :
        cols \in LapColumnSets, nvalid \in LapCounts, steady \in BOOLEAN}

PlainLapTables ==
    {LapTable(required_columns, nvalid, FALSE) : nvalid \in {5, 15, MaxLaps}}
        \cup {LapTable(required_columns \cup {"stint_number"}, MaxLaps, TRUE)}

SectorKinds == {"steady", "varied", "erratic", "short", "first_invalid", "none_valid"}

\* A sector table of SectorRows rows with the sector columns `present`
\* (a subset of 1..3).
SectorTable(present, kind) ==
    LET Varied(c, i) ==
            CASE c = 1 -> 30 + (i % 3)
              [] c = 2 -> IF i = 5 THEN 80 ELSE 40 + (i % 4)
              [] c = 3 -> IF i = 1 THEN 20 ELSE 25 + (i % 2)
        Cell(c, i) ==
            CASE kind = "steady" -> <<30, 40, 25>>[c]
              [] kind = "varied" -> Varied(c, i)
              [] kind = "erratic" -> IF i % 2 = 0 THEN 25 ELSE 65
              [] kind = "short" -> IF i <= 2 THEN <<30, 40, 25>>[c] ELSE 0
              [] kind = "first_invalid" -> IF c = 1 THEN 0 ELSE Varied(c, i)
              [] kind = "none_valid" -> 0
    IN  [columns |-> {sector_cols[c] : c \in present}, rows |-> SectorRows,
         values |-> [name \in {sector_cols[c] : c \in present} |->
                        LET c == CHOOSE k \in present : sector_cols[k] = name
                        IN  Array([i \in 1..SectorRows |-> Cell(c, i)])]]

\* A sector table with all three columns and no row.
EmptySectorTable ==
    [columns |-> {sector_cols[c] : c \in 1..3}, rows |-> 0,
     values |-> [name \in {sector_cols[c] : c \in 1..3} |-> <<>>]]

\* No table (None), the empty table, and every choice of columns and kind.
SectorTables ==
    {<<>>, <<EmptySectorTable>>}
        \cup {<<SectorTable(present, kind)>> :
                 present \in SUBSET (1..3), kind \in SectorKinds}

FewSectorTables ==
    {<<>>, <<SectorTable({1, 2, 3}, "varied")>>, <<SectorTable({1, 2, 3}, "steady")>>,
     <<SectorTable({2, 3}, "varied")>>, <<SectorTable({2, 3}, "steady")>>,
     <<SectorTable({1, 2, 3}, "short")>>}

\* A telemetry table of `rows` rows.
TelemetryTable(columns, rows, steady) ==
    LET Cell(c, i) ==
            CASE c = "throttle" -> IF steady THEN 50 ELSE 10 * (i % 3)
              [] c = "brake" -> IF steady THEN 0 ELSE 5 * (i % 2)
              [] c = "steering_angle" -> IF steady THEN 0 ELSE (i % 4) - 2
              [] OTHER -> 100 + i
    IN  [columns |-> columns, rows |-> rows,
         values |-> [c \in columns |-> Array([i \in 1..rows |-> Cell(c, i)])]]

Telemetries ==
    {<<>>,
     <<TelemetryTable({"throttle"}, 0, TRUE)>>,
     <<TelemetryTable({"throttle"}, 1, TRUE)>>,
     <<TelemetryTable({"speed"}, TelemetryRows, FALSE)>>,
     <<TelemetryTable({"throttle"}, TelemetryRows, TRUE)>>,
     <<TelemetryTable({"throttle", "brake", "steering_angle"}, TelemetryRows, FALSE)>>}

\* Engines made with other fractions: a sum of 2.5, a sum of 1.02, all zero,
\* consistency alone.
OtherCalculators ==
    {Calculator(50, 50, 50, 50, 50), Calculator(30, 25, 20, 15, 12),
     Calculator(0, 0, 0, 0, 0), Calculator(100, 0, 0, 0, 0),
     [DefaultCalculator EXCEPT !.traffic_weight = Thousandths(105)]}

\* Steady laps in two stints with every optional column, and steady throttle.
SteadyLapTable ==
    LapTable(required_columns \cup
                 {"stint_number", "air_temp", "track_temp", "temp_delta_from_start",
                  "traffic_indicator", "yellow_flag_indicator", "is_clear_lap"},
             15, TRUE)
SteadyTelemetry == <<TelemetryTable({"throttle"}, TelemetryRows, TRUE)>>

\* The engine and the tables of one call.
SiwtlInputs ==
    ({DefaultCalculator} \X LapTables \X FewSectorTables \X {<<>>})
        \cup ({DefaultCalculator} \X PlainLapTables \X SectorTables \X Telemetries)
        \cup ({DefaultCalculator} \X {SteadyLapTable} \X FewSectorTables
                 \X {SteadyTelemetry})
        \cup (OtherCalculators \X PlainLapTables \X FewSectorTables
                 \X {<<>>, <<TelemetryTable({"throttle", "brake"}, TelemetryRows, FALSE)>>})

(***************************************************************************)
(* SIWTLCalculator.calculate_siwtl                                         *)
(***************************************************************************)
SiwtlInit ==
    /\ \E input \in SiwtlInputs :
          /\ init_args = input[1]
          /\ driver_data = input[2]
          /\ sector_data = input[3]
          /\ siwtl_telemetry = input[4]
    /\ calculator = None
    /\ wpc = "new"
    /\ valid_laps = <<>>
    /\ theoretical_best = <<>>
    /\ sector_weights = <<>>
    /\ siwtl_result = <<>>
    /\ raised = None
    /\ first_result = <<>>
    /\ logged = <<>>
    /\ SingletonIdle
    /\ DptadIdle
    /\ BoundaryIdle

\* StoredWeights dividing every fraction by the sum of the five.
StoredWeights_Normalised(args) ==
    [f \in DOMAIN args |->
        IF TotalWeight(args) = 0 THEN args[f]
        ELSE (args[f] * Scale) \div TotalWeight(args)]

\* `self.consistency_weight = consistency_weight` and the four like it
StoredWeights(args) ==
    [consistency_weight |-> args.consistency_weight,
     smoothness_weight |-> args.smoothness_weight,
     conditions_weight |-> args.conditions_weight,
     temperature_weight |-> args.temperature_weight,
     traffic_weight |-> args.traffic_weight]

\* SIWTLCalculator.__init__: the five fractions are stored, a warning is
\* logged when their sum is further than 0.01 from 1.0; nothing is raised.
CalculatorInit ==
    /\ wpc = "new"
    /\ calculator' = StoredWeights(init_args)
    /\ logged' =
          IF WeightsWarning(init_args)
          THEN Append(logged, Message("SIWTL weights sum to {total_weight:.3f}, not 1.0",
                                      TotalWeight(init_args)))
          ELSE logged
    /\ wpc' = "start"
    /\ UNCHANGED <<driver_data, sector_data, siwtl_telemetry, valid_laps,
                   theoretical_best, sector_weights, siwtl_result, raised,
                   first_result, init_args, svars, dvars, bvars>>

\* `raise ValueError(...)`: a required column is missing from the lap table.
RaiseValueError ==
    /\ wpc = "start"
    /\ ~(required_columns \subseteq driver_data.columns)
    /\ raised' = "ValueError"
    /\ wpc' = "raised"
    /\ UNCHANGED <<calculator, driver_data, sector_data, siwtl_telemetry, valid_laps,
                   theoretical_best, sector_weights, siwtl_result, first_result, init_args, logged, svars, dvars, bvars>>

\* `valid_laps = driver_data[(lap_time_ms >= 120000) & (lap_time_ms <= 200000)]`
FilterValidLaps ==
    /\ wpc = "start"
    /\ required_columns \subseteq driver_data.columns
    /\ valid_laps' = ValidLapRows(driver_data)
    /\ wpc' = "filtered"
    /\ UNCHANGED <<calculator, driver_data, sector_data, siwtl_telemetry,
                   theoretical_best, sector_weights, siwtl_result, raised,
                   first_result, init_args, logged, svars, dvars, bvars>>

\* `if len(valid_laps) < 5: return self._create_insufficient_data_result()`
ReturnInsufficientData ==
    /\ wpc = "filtered"
    /\ Len(valid_laps) < 5
    /\ siwtl_result' = InsufficientDataResult
    /\ wpc' = "done"
    /\ UNCHANGED <<calculator, driver_data, sector_data, siwtl_telemetry, valid_laps,
                   theoretical_best, sector_weights, raised, first_result, init_args, logged, svars, dvars, bvars>>

\* `theoretical_best = self._calculate_theoretical_best(valid_laps, sector_data)`
TheoreticalBest ==
    /\ wpc = "filtered"
    /\ Len(valid_laps) >= 5
    /\ theoretical_best' =
           CalculateTheoreticalBest(driver_data, valid_laps, sector_data)
    /\ wpc' = "best"
    /\ UNCHANGED <<calculator, driver_data, sector_data, siwtl_telemetry, valid_laps,
                   sector_weights, siwtl_result, raised, first_result, init_args, logged, svars, dvars, bvars>>

\* `sector_weights = self._calculate_sector_weights(...)`
SectorWeights ==
    /\ wpc = "best"
    /\ sector_weights' =
           CalculateSectorWeights(calculator, driver_data, valid_laps, sector_data,
                                  siwtl_telemetry)
    /\ wpc' = "weights"
    /\ UNCHANGED <<calculator, driver_data, sector_data, siwtl_telemetry, valid_laps,
                   theoretical_best, siwtl_result, raised, first_result, init_args, logged, svars, dvars, bvars>>

\* `siwtl_result = self._compute_siwtl(...)`, the metadata, `return`
ReturnResult ==
    /\ wpc = "weights"
    /\ \E now \in 1..MaxClock :
          siwtl_result' =
              WithMetadata(ComputeSiwtl(theoretical_best, sector_weights,
                                        driver_data, valid_laps),
                           calculator, valid_laps, now)
    /\ wpc' = "done"
    /\ UNCHANGED <<calculator, driver_data, sector_data, siwtl_telemetry, valid_laps,
                   theoretical_best, sector_weights, raised, first_result, init_args, logged, svars, dvars, bvars>>

\* The caller invokes calculate_siwtl once more with the same engine and the
\* same tables, keeping what the first call returned.
CallAgain ==
    /\ wpc = "done"
    /\ first_result = <<>>
    /\ first_result' = <<siwtl_result>>
    /\ wpc' = "start"
    /\ valid_laps' = <<>>
    /\ theoretical_best' = <<>>
    /\ sector_weights' = <<>>
    /\ siwtl_result' = <<>>
    /\ UNCHANGED <<calculator, driver_data, sector_data, siwtl_telemetry, raised,
                   init_args, logged, svars, dvars, bvars>>

SiwtlNext ==
    \/ CalculatorInit
    \/ CallAgain
    \/ RaiseValueError
    \/ FilterValidLaps
    \/ ReturnInsufficientData
    \/ TheoreticalBest
    \/ SectorWeights
    \/ ReturnResult

SpecSiwtl == SiwtlInit /\ [][SiwtlNext]_vars

(***************************************************************************)
(* The API boundary: api/ml_analysis.py                                    *)
(*                                                                         *)
(* A Python object handed to the response is [type, value, items]: its     *)
(* type's name, for a number whether it is finite, nan or inf, and for a   *)
(* dict or a list its members in order (a dict's keys are strings, only    *)
(* its values are held).  numpy.float64 is a subclass of float and, as     *)
(* every numpy scalar, has the method item().                              *)
(***************************************************************************)
Leaf(type, value) == [type |-> type, value |-> value, items |-> <<>>]
Container(type, items) == [type |-> type, value |-> "", items |-> items]

\* Python's None as a member of a response
NoneValue == Leaf("NoneType", "")

\* `isinstance(obj, float)`
IsFloat(obj) == obj.type \in {"float", "float64"}

\* `np.isnan(obj) or np.isinf(obj)`
IsNanOrInf(obj) == obj.value \in {"nan", "inf"}

\* `hasattr(obj, 'item')`: the numpy scalars
HasItem(obj) == obj.type \in {"float64", "int64"}

\* `obj.item()`: the Python number of the same value
Item(obj) == Leaf(IF obj.type = "float64" THEN "float" ELSE "int", obj.value)

RECURSIVE clean_nans(_)
\* clean_nans of analyze_driver_dptad and of calculate_driver_siwtl_endpoint
clean_nans(obj) ==
    IF IsFloat(obj) /\ IsNanOrInf(obj) THEN NoneValue
    ELSE IF obj.type \in {"dict", "list"}
    THEN Container(obj.type,
                   [k \in 1..Len(obj.items) |-> clean_nans(obj.items[k])])
    ELSE obj

RECURSIVE convert_numpy(_)
\* convert_numpy of comprehensive_ml_analysis: the test for item() comes
\* before the test for nan and inf.
convert_numpy(obj) ==
    IF obj.type \in {"dict", "list"}
    THEN Container(obj.type,
                   [k \in 1..Len(obj.items) |-> convert_numpy(obj.items[k])])
    ELSE IF HasItem(obj) THEN Item(obj)
    ELSE IF IsFloat(obj)
    THEN (IF IsNanOrInf(obj) THEN NoneValue ELSE Leaf("float", obj.value))
    ELSE obj

\* The deepest nesting of dicts and lists in a payload.
MaxDepth == 2

\* Plain floats, numpy floats, integers, a string, None.
Leaves ==
    {Leaf(type, value) : type \in {"float", "float64"},
                         value \in {"finite", "nan", "inf"}}
        \cup {Leaf("int", "finite"), Leaf("int64", "finite"), Leaf("str", ""),
              NoneValue}

RECURSIVE Payloads(_)
\* The objects nested at most `depth` deep: a leaf, an empty container, a
\* container of one member, a container of a float and one more member.
Payloads(depth) ==
    IF depth = 0 THEN Leaves
    ELSE LET inner == Payloads(depth - 1)
             first == {Leaf("float", "finite"), Leaf("float64", "nan")}
         IN  Leaves
                 \cup {Container(type, <<>>) : type \in {"dict", "list"}}
                 \cup {Container(type, <<x>>) : type \in {"dict", "list"}, x \in inner}
                 \cup {Container(type, <<x, y>>) :
                          type \in {"dict", "list"}, x \in first, y \in inner}

\* The three endpoints that clean their response.
Endpoints == {"dptad", "siwtl", "comprehensive"}

BoundaryInit ==
    /\ endpoint \in Endpoints
    /\ payload \in Payloads(MaxDepth)
    /\ content = <<>>
    /\ bpc = "start"
    /\ SingletonIdle
    /\ DptadIdle
    /\ SiwtlIdle

\* analyze_driver_dptad: `return clean_nans({...})`
ReturnDptad ==
    /\ bpc = "start"
    /\ endpoint = "dptad"
    /\ content' = <<clean_nans(payload)>>
    /\ bpc' = "done"
    /\ UNCHANGED <<endpoint, payload, svars, dvars, wvars>>

\* calculate_driver_siwtl_endpoint: `return clean_nans({...})`
ReturnSiwtl ==
    /\ bpc = "start"
    /\ endpoint = "siwtl"
    /\ content' = <<clean_nans(payload)>>
    /\ bpc' = "done"
    /\ UNCHANGED <<endpoint, payload, svars, dvars, wvars>>

\* comprehensive_ml_analysis: `JSONResponse(content=convert_numpy(response_data))`
ReturnComprehensive ==
    /\ bpc = "start"
    /\ endpoint = "comprehensive"
    /\ content' = <<convert_numpy(payload)>>
    /\ bpc' = "done"
    /\ UNCHANGED <<endpoint, payload, svars, dvars, wvars>>

BoundaryNext == ReturnDptad \/ ReturnSiwtl \/ ReturnComprehensive

SpecBoundary == BoundaryInit /\ [][BoundaryNext]_vars

(***************************************************************************)
(* Properties                                                              *)
(***************************************************************************)
\* C1: under every interleaving of concurrent first calls to a getter the
\* engine constructor runs exactly once, and all callers of the same getter
\* receive the same instance.
C1_ConstructedOnce ==
    /\ \A g \in Globals : objects[g] <= 1
    /\ \A t, u \in Threads :
          (pc[t] = "done" /\ pc[u] = "done" /\ callee[t] = callee[u])
              => returned[t] = returned[u]

\* Positions of the slow candidates of the same signal within 10 time units
\* of the fast candidate f (boundary included).
Matched(f) ==
    {j \in 1..Len(slow_anomalies) :
        /\ slow_anomalies[j].signal = f.signal
        /\ Abs(slow_anomalies[j].timestamp - f.timestamp) <= 10}

\* Positions of the reconciled anomalies emitted for the fast candidate f.
EmittedFor(f) ==
    {i \in 1..Len(reconciled) : reconciled[i].fast_component = <<f>>}

\* C2: a fast candidate with at least one slow candidate of its signal within
\* 10 time units yields exactly one anomaly, classified compound, whose
\* severity is the maximum of its own severity and those of all the matched
\* slow candidates.
C2_CompoundSeverity ==
    \A k \in 1..Len(fast_anomalies) :
        LET f == fast_anomalies[k]
            sevs == {f.severity} \cup {slow_anomalies[j].severity : j \in Matched(f)}
        IN  Matched(f) # {} =>
              /\ Cardinality(EmittedFor(f)) = 1
              /\ \A i \in EmittedFor(f) :
                    /\ reconciled[i].type = "compound"
                    /\ reconciled[i].severity \in sevs
                    /\ \A x \in sevs : x <= reconciled[i].severity

\* C2's case: a fast candidate matched by several slow candidates, one of them
\* exactly 10 away, the compound severity set by a slow candidate that is not
\* the first matched one.
C2_Witness ==
    \E k \in 1..Len(fast_anomalies) :
        LET f == fast_anomalies[k]
            first == CHOOSE j \in Matched(f) : \A h \in Matched(f) : j <= h
        IN  /\ Cardinality(Matched(f)) >= 2
            /\ \E j \in Matched(f) :
                  Abs(slow_anomalies[j].timestamp - f.timestamp) = 10
            /\ \E i \in EmittedFor(f) :
                  /\ reconciled[i].type = "compound"
                  /\ reconciled[i].severity > f.severity
                  /\ reconciled[i].severity > slow_anomalies[first].severity

\* C3: a fast candidate with no slow candidate of its signal within 10 time
\* units yields exactly one anomaly, classified driver_mistake, with the fast
\* candidate's severity; with no slow candidates at all every anomaly is a
\* driver_mistake and there is one per spike group.
C3_DriverMistake ==
    /\ \A k \in 1..Len(fast_anomalies) :
          LET f == fast_anomalies[k]
          IN  Matched(f) = {} =>
                /\ Cardinality(EmittedFor(f)) = 1
                /\ \A i \in EmittedFor(f) :
                      /\ reconciled[i].type = "driver_mistake"
                      /\ reconciled[i].severity = f.severity
    /\ slow_anomalies = <<>> =>
          /\ \A i \in 1..Len(reconciled) : reconciled[i].type = "driver_mistake"
          /\ Len(reconciled) = Len(spike_groups)

\* C3's case: slow candidates exist, none within the window of some fast
\* candidate, which came out as a driver_mistake; two spike groups.
C3_Witness ==
    /\ Len(slow_anomalies) > 0
    /\ Len(spike_groups) >= 2
    /\ \E k \in 1..Len(fast_anomalies) :
          /\ Matched(fast_anomalies[k]) = {}
          /\ \E i \in EmittedFor(fast_anomalies[k]) :
                reconciled[i].type = "driver_mistake"

\* Whether some fast candidate lies within 10 time units of the slow one.
SlowNearFast(s) ==
    \E k \in 1..Len(fast_anomalies) :
        Abs(s.timestamp - fast_anomalies[k].timestamp) <= 10

\* Positions of the degradation anomalies emitted for the slow candidate s.
DegradationFor(s) ==
    {i \in 1..Len(reconciled) :
        reconciled[i].type = "degradation" /\ reconciled[i].slow_component = <<s>>}

\* C4: a slow candidate with no fast candidate within 10 time units becomes
\* exactly one degradation anomaly with its own severity, a slow candidate
\* with one becomes none; with no fast candidates every anomaly is a
\* degradation.
C4_Degradation ==
    /\ \A j \in 1..Len(slow_anomalies) :
          LET s == slow_anomalies[j]
          IN  IF SlowNearFast(s)
              THEN DegradationFor(s) = {}
              ELSE /\ Cardinality(DegradationFor(s)) = 1
                   /\ \A i \in DegradationFor(s) : reconciled[i].severity = s.severity
    /\ fast_anomalies = <<>> =>
          \A i \in 1..Len(reconciled) : reconciled[i].type = "degradation"

\* C4's case: one slow candidate exactly 10 away from a fast candidate, another
\* outside every window and emitted as a degradation.
C4_Witness ==
    \E j, h \in 1..Len(slow_anomalies) :
        /\ \E k \in 1..Len(fast_anomalies) :
              Abs(slow_anomalies[j].timestamp - fast_anomalies[k].timestamp) = 10
        /\ ~SlowNearFast(slow_anomalies[h])
        /\ DegradationFor(slow_anomalies[h]) # {}

SeveritiesInRange(list) ==
    \A i \in 1..Len(list) : 0 <= list[i].severity /\ list[i].severity <= 10 * Scale

\* C5: every candidate of the drift and spike detectors and every reconciled
\* anomaly returned by detect_anomalies has a severity within [0, 10], for
\* every input and every engine configuration.
C5_SeverityInRange ==
    /\ SeveritiesInRange(slow_anomalies)
    /\ SeveritiesInRange(fast_anomalies)
    /\ SeveritiesInRange(reconciled)
    /\ SeveritiesInRange(anomaly_df)

\* C6: calculate_siwtl never raises, whatever lap table it is given: a table
\* without usable lap data yields the insufficient-data result object.
C6_NeverRaises ==
    /\ wpc # "raised"
    /\ raised = None
    /\ (wpc = "done" /\ Len(valid_laps) < 5)
           => siwtl_result = InsufficientDataResult

\* The number of laps of the lap table with lap_time_ms in [120000, 200000].
ValidLapCount == Len(ValidLapRows(driver_data))

\* The four numeric fields of a returned result.
NumericFields == {"siwtl_lap", "theoretical_best_lap", "potential_gain_sec",
                  "achievability_score"}

\* C7: once calculate_siwtl has ended on a lap table with fewer than 5 valid
\* laps, it has returned (not raised) the insufficient-data result, whose four
\* numeric fields are null, and has computed no sector weights; on a table
\* with 5 or more valid laps it has returned non-null numeric fields.
C7_FiveValidLaps ==
    (wpc \in {"done", "raised"} /\ "lap_time_ms" \in driver_data.columns)
        => /\ wpc = "done"
           /\ IF ValidLapCount < 5
              THEN /\ \A field \in NumericFields : siwtl_result[field] = Null
                   /\ siwtl_result.confidence_level = "None"
                   /\ sector_weights = <<>>
              ELSE \A field \in NumericFields : siwtl_result[field] # Null

\* The weights the composition applied: those of the sector analysis in the
\* sector-based method, those averaged in the lap-based method.
AppliedWeights ==
    IF theoretical_best.method = "sector_based"
    THEN {siwtl_result.sector_analysis[key].achievability_weight :
             key \in DOMAIN siwtl_result.sector_analysis}
    ELSE {sector_weights[key].combined_weight : key \in DOMAIN sector_weights}

\* C8: for every numeric result, if every sector weight applied in the
\* composition is at most 1 then siwtl_lap >= theoretical_best_lap, whatever
\* sector columns the sector table has, in both methods.
C8_SiwtlAtLeastTheoreticalBest ==
    (wpc = "done" /\ Len(valid_laps) >= 5 /\ \A w \in AppliedWeights : w <= Scale)
        => siwtl_result.siwtl_lap[1] >= siwtl_result.theoretical_best_lap[1]

SectorWeightFields == {"consistency_score", "smoothness_score", "conditions_score",
                       "temperature_score", "traffic_score", "combined_weight"}

\* C9: every SectorWeight record the sector scorer produced (computed, default
\* or uniform) has its five sub-scores and its combined_weight within [0, 1],
\* for every engine with non-negative weight fractions, whatever their sum.
C9_SectorWeightInUnitRange ==
    \A key \in DOMAIN sector_weights :
        \A field \in SectorWeightFields :
            /\ 0 <= sector_weights[key][field]
            /\ sector_weights[key][field] <= Scale

\* C10: in every SectorWeight record the sector scorer returned, the default
\* and the uniform record included, combined_weight is the sum of the five
\* sub-scores each multiplied by the engine's factor weight.
C10_CombinedIsWeightedSum ==
    \A key \in DOMAIN sector_weights :
        sector_weights[key].combined_weight =
            CombinedWeight(calculator, sector_weights[key])

\* C11: whenever calculate_siwtl has returned a numeric result with
\* siwtl_lap > 0, its achievability_score lies within [0, 1].
C11_AchievabilityInUnitRange ==
    (wpc = "done" /\ Len(valid_laps) >= 5 /\ siwtl_result.siwtl_lap[1] > 0)
        => /\ 0 <= siwtl_result.achievability_score[1]
           /\ siwtl_result.achievability_score[1] <= Scale

\* A numeric result whose ideal lap is positive and below the theoretical
\* best: the ratio exceeds 1 and the score is the clipped 1.0.
C11_Witness ==
    /\ wpc = "done" /\ Len(valid_laps) >= 5
    /\ siwtl_result.siwtl_lap[1] > 0
    /\ siwtl_result.siwtl_lap[1] < siwtl_result.theoretical_best_lap[1]
    /\ siwtl_result.achievability_score[1] = Scale

\* C12: two invocations of calculate_siwtl with identical tables and an
\* identical engine return identical results, no field depending on anything
\* but the inputs and the configuration (and likewise for detect_anomalies
\* and analyze_driver_anomalies).
C12_Deterministic ==
    (wpc = "done" /\ first_result # <<>>) => siwtl_result = first_result[1]

RECURSIVE HasNanOrInf(_)
\* The object holds a number that is nan or inf, at any depth.
HasNanOrInf(obj) ==
    \/ obj.type \in {"float", "float64"} /\ IsNanOrInf(obj)
    \/ \E k \in 1..Len(obj.items) : HasNanOrInf(obj.items[k])

\* C13: the content of every response of the DPTAD, SIWTL and comprehensive
\* endpoints holds no NaN and no infinite number: each one, a plain float or a
\* numpy scalar, at any depth of dicts and lists, has been replaced by null.
C13_NoNanInResponse ==
    bpc = "done" => ~HasNanOrInf(content[1])

\* The severities of the list never increase from one row to the next.
SeverityDescending(list) ==
    \A i \in 1..(Len(list) - 1) : list[i].severity >= list[i + 1].severity

\* C14: the anomaly list detect_anomalies returned, and the one
\* analyze_driver_anomalies passes on, is ordered by non-increasing severity
\* across all analysed signals.
C14_SeverityDescending ==
    /\ dpc \in {"done", "summarized", "returned"} => SeverityDescending(anomaly_df)
    /\ dpc = "returned" => SeverityDescending(analysis.anomalies)

\* Anomalies of two signals were found in increasing order of severity, and
\* have been returned.
C14_Witness ==
    /\ dpc = "returned"
    /\ \E i \in 1..(Len(anomalies) - 1) :
          /\ anomalies[i].severity < anomalies[i + 1].severity
          /\ anomalies[i].signal # anomalies[i + 1].signal
    /\ Len(analysis.anomalies) = Len(anomalies)

\* The times of sector i in the sector table that lie strictly between 20
\* and 80 seconds; none when there is no table or no such column.
PlausibleTimes(i) ==
    IF sector_data = <<>> \/ sector_cols[i] \notin sector_data[1].columns THEN {}
    ELSE {sector_data[1].values[sector_cols[i]][row] : row \in 1..sector_data[1].rows}
             \cap 21..79

\* The sectors with at least one plausible time.
PlausibleSectors == {i \in 1..3 : PlausibleTimes(i) # {}}

\* The smallest member of a non-empty set of numbers.
Least(set) == CHOOSE x \in set : \A y \in set : x <= y

\* The sum of the minimum plausible time of every sector that has one.
SumOfSectorBests ==
    SumSeq([i \in 1..3 |->
               IF i \in PlausibleSectors THEN Least(PlausibleTimes(i)) * Scale ELSE 0])

\* The lap times of the lap table within [120000, 200000] ms.
ValidLapTimes ==
    {driver_data.values["lap_time_ms"][row] : row \in 1..driver_data.rows}
        \cap 120000..200000

\* C15: when at least two of the three sectors have a time inside the
\* plausible range, the theoretical best lap is the sum of each such sector's
\* minimum valid time and is tagged 'sector_based'; in every other case it is
\* the minimum valid lap time and is tagged 'lap_based'.
C15_TheoreticalBest ==
    wpc \in {"best", "weights"} =>
        IF Cardinality(PlausibleSectors) >= 2
        THEN /\ theoretical_best.method = "sector_based"
             /\ theoretical_best.theoretical_best_lap = SumOfSectorBests
        ELSE /\ theoretical_best.method = "lap_based"
             /\ theoretical_best.theoretical_best_lap =
                    (Least(ValidLapTimes) * Scale) \div 1000

\* All three sector columns are there and exactly two of them have plausible
\* times, one of which has a time of exactly 20 s beside them.
C15_Witness ==
    /\ wpc = "best"
    /\ sector_data # <<>>
    /\ Cardinality(sector_data[1].columns) = 3
    /\ Cardinality(PlausibleSectors) = 2
    /\ \E row \in 1..sector_data[1].rows :
          sector_data[1].values["sector_3_time"][row] = 20
    /\ theoretical_best.method = "sector_based"

\* The sectors scored from sector data: the sector columns of a sector table
\* that has rows.
ScoredSectors ==
    IF sector_data = <<>> \/ sector_data[1].rows = 0 THEN {}
    ELSE {i \in 1..3 : sector_cols[i] \in sector_data[1].columns}

\* The mean combined_weight of the scored sectors.
ScoredMeanWeight ==
    SumSeq([i \in 1..3 |->
               IF i \in ScoredSectors
               THEN sector_weights[SectorKey(i)].combined_weight ELSE 0])
        \div Cardinality(ScoredSectors)

\* C16: in the lap-based composition, when no sector was scored avg_weight is
\* the default 0.75 and siwtl_lap = theoretical_best_lap / 0.75; otherwise
\* avg_weight is the mean of the scored sectors' combined_weight and
\* siwtl_lap = theoretical_best_lap / max(avg_weight, 0.1).
C16_LapBasedAverageWeight ==
    (wpc = "done" /\ Len(valid_laps) >= 5 /\ theoretical_best.method = "lap_based")
        => siwtl_result.siwtl_lap[1] =
              (siwtl_result.theoretical_best_lap[1] * Scale)
                  \div (IF ScoredSectors = {} THEN Hundredths(75)
                        ELSE Max(ScoredMeanWeight, Hundredths(10)))

\* C17: confidence_level is 'High' exactly when there are at least 30 valid
\* laps and at least 2 sectors were scored from sector data, otherwise
\* 'Medium' when there are at least 15 valid laps, otherwise 'Low'; with no
\* sector data it is never 'High'.
C17_ConfidenceLevel ==
    (wpc = "done" /\ Len(valid_laps) >= 5)
        => siwtl_result.confidence_level =
              (IF Len(valid_laps) >= 30 /\ Cardinality(ScoredSectors) >= 2 THEN "High"
               ELSE IF Len(valid_laps) >= 15 THEN "Medium"
               ELSE "Low")

\* C18: in the sector-based composition, if every applied sector weight
\* equals 1.0 then siwtl_lap equals theoretical_best_lap exactly.
C18_UnitWeights ==
    (/\ wpc = "done" /\ Len(valid_laps) >= 5
     /\ theoretical_best.method = "sector_based"
     /\ \A w \in AppliedWeights : w = Scale)
        => siwtl_result.siwtl_lap[1] = siwtl_result.theoretical_best_lap[1]


\* Mean severities 0.0, 0.5, ..., 10.0 in Scale units.
SeverityGrid == {(k * Scale) \div 2 : k \in 0..20}

\* The distinct messages the cascade has for a classification as the mean
\* severity runs over the severity range.
TierMessages(dominant_type, dominant_signal) ==
    {RecommendationFor(dominant_type, dominant_signal, s) : s \in SeverityGrid}

\* The number of messages the classification is said to have.
TierCount(dominant_type) == IF dominant_type = "compound" THEN 1 ELSE 3

\* C19: the recommendation of the summary is the fixed "no anomalies" message
\* for the empty list, and otherwise the message of the cascade for a most
\* frequent classification and the mean severity, a cascade with three
\* distinct messages for driver_mistake, three for degradation and one for
\* compound.
C19_RecommendationTiers ==
    dpc \in {"summarized", "returned"} =>
        IF Len(anomaly_df) = 0
        THEN summary.recommendation =
                 Message("No anomalies detected. Performance is consistent.", "")
        ELSE \E t \in MostFrequent(anomaly_df, "type"), sig \in MostFrequent(anomaly_df, "signal") :
                /\ summary.recommendation = RecommendationFor(t, sig, SeverityMean(anomaly_df))
                /\ Cardinality(TierMessages(t, sig)) = TierCount(t)

\* The six fields of an AnomalySummary.
SummaryFields ==
    {"total_anomalies", "severity_avg", "severity_max", "high_severity_count",
     "signals_affected", "recommendation"}

\* C20: the record get_anomaly_summary returns carries all six fields for
\* every anomaly list, and for the empty list its total and its count of
\* high severities are 0.
C20_SummaryFields ==
    dpc \in {"summarized", "returned"} =>
        /\ SummaryFields \subseteq DOMAIN summary
        /\ Len(anomaly_df) = 0 =>
              summary.total_anomalies = 0 /\ summary.high_severity_count = 0


\* The distinct signals of the rows of a list.
SignalsOf(list) == {list[k].signal : k \in 1..Len(list)}

\* The set of the entries of a sequence.
Entries(s) == {s[k] : k \in 1..Len(s)}

\* C21: for a non-empty anomaly list the summary's total is the number of
\* anomalies, its high_severity_count the number of anomalies with a severity
\* strictly greater than 5.0, its severity_max the largest severity and its
\* signals_affected exactly the distinct signals of the list, each once.
C21_SummaryCounts ==
    (dpc \in {"summarized", "returned"} /\ Len(anomaly_df) > 0) =>
        /\ summary.total_anomalies = Len(anomaly_df)
        /\ summary.high_severity_count =
              Cardinality({k \in 1..Len(anomaly_df) : ~(anomaly_df[k].severity <= 5 * Scale)})
        /\ \E k \in 1..Len(anomaly_df) : summary.severity_max = anomaly_df[k].severity
        /\ \A k \in 1..Len(anomaly_df) : anomaly_df[k].severity <= summary.severity_max
        /\ Entries(summary.signals_affected) = SignalsOf(anomaly_df)
        /\ Len(summary.signals_affected) = Cardinality(SignalsOf(anomaly_df))

\* A summary was made of a list that holds an anomaly of severity exactly 5.0
\* and one of a higher severity.
C21_Witness ==
    /\ dpc = "summarized"
    /\ Len(anomaly_df) > 1
    /\ \E k \in 1..Len(anomaly_df) : anomaly_df[k].severity = 5 * Scale
    /\ \E k \in 1..Len(anomaly_df) : anomaly_df[k].severity > 5 * Scale
    /\ summary.high_severity_count < summary.total_anomalies


\* C22: constructing the engine raises nothing for any five fractions and
\* stores them as given; a warning is logged when their sum is not 1.0 and
\* none when it is.
C22_ConstructorWarning ==
    wpc = "start" =>
        /\ raised = None
        /\ calculator = init_args
        /\ (Len(logged) > 0) <=> (TotalWeight(init_args) # Scale)


\* The band-pass view of the column analysed last, as <<filtered_signal>>;
\* <<>> before any analysis and where the fast path returned early.
FilteredLast ==
    IF analysed_signal = None THEN <<>>
    ELSE FastFilter(detector, telemetry_data, analysed_signal)

\* The flagged sample indices of the filtered signal.
Flagged(filtered_signal, spike_threshold) ==
    {i \in 0..(Len(filtered_signal) - 1) :
        Abs(filtered_signal[i + 1]) * Scale > spike_threshold}

\* The groups partition the flagged indices into maximal runs.
MaximalRuns(groups, flagged) ==
    /\ \A i \in flagged :
          Cardinality({g \in 1..Len(groups) :
                          \E k \in 1..Len(groups[g]) : groups[g][k] = i}) = 1
    /\ \A g \in 1..Len(groups) :
          /\ Len(groups[g]) > 0
          /\ \A k \in 1..Len(groups[g]) : groups[g][k] \in flagged
          /\ \A k \in 1..(Len(groups[g]) - 1) :
                /\ groups[g][k] < groups[g][k + 1]
                /\ groups[g][k + 1] - groups[g][k] <= 5
          /\ g < Len(groups) => groups[g + 1][1] - groups[g][Len(groups[g])] > 5

\* The candidate is located at the group's first index of largest magnitude.
AtFirstPeak(candidate, group, filtered_signal) ==
    \E k \in 1..Len(group) :
        /\ candidate.timestamp = Timestamp(telemetry_data, group[k])
        /\ \A j \in 1..Len(group) :
              Abs(filtered_signal[group[j] + 1]) <= Abs(filtered_signal[group[k] + 1])
        /\ \A j \in 1..(k - 1) :
              Abs(filtered_signal[group[j] + 1]) < Abs(filtered_signal[group[k] + 1])

\* C23: the spike groups partition the ascending flagged indices into maximal
\* runs: every flagged index is in exactly one group, neighbours inside a
\* group differ by at most 5, the last index of a group and the first of the
\* next by more than 5; the fast path emits one candidate per group, at the
\* group's first index of largest filtered magnitude.
C23_SpikeGroups ==
    LET filtered == FilteredLast
    IN  /\ Len(fast_anomalies) = Len(spike_groups)
        /\ IF filtered = <<>> THEN spike_groups = <<>>
           ELSE /\ MaximalRuns(spike_groups,
                               Flagged(filtered[1], SpikeThreshold(detector, filtered[1])))
                /\ \A g \in 1..Len(spike_groups) :
                      AtFirstPeak(fast_anomalies[g], spike_groups[g], filtered[1])

\* A group of two indices exactly 5 apart whose candidate sits at the second.
C23_Witness ==
    \E g \in 1..Len(spike_groups) :
        /\ Len(spike_groups[g]) = 2
        /\ spike_groups[g][2] - spike_groups[g][1] = 5
        /\ Len(fast_anomalies) = Len(spike_groups)
        /\ fast_anomalies[g].timestamp = Timestamp(telemetry_data, spike_groups[g][2])


\* The raw value of the analysed column at the row the candidate sits on.
RawAt(candidate) ==
    LET signal_data == SignalData(telemetry_data.columns[candidate.signal],
                                  telemetry_data.rows)
        i == CHOOSE i \in 0..(telemetry_data.rows - 1) :
                 Timestamp(telemetry_data, i) = candidate.timestamp
    IN  signal_data[i + 1]

\* The label the static lookup has for a signal and a sign, '<signal>_anomaly'
\* where it has none.
LabelFor(signal, raw_value) ==
    CASE signal = "brake" ->
            IF raw_value > 0 THEN "brake_spike" ELSE "brake_release_error"
      [] signal = "throttle" ->
            IF raw_value > 0 THEN "throttle_stab" ELSE "lift_hesitation"
      [] signal = "speed" ->
            IF raw_value > 0 THEN "traction_loss" ELSE "lock_up"
      [] signal = "steering_angle" /\ raw_value > 0 -> "overcorrection"
      [] OTHER -> signal \o "_anomaly"

\* C24: the subtype of a spike on a positive or a negative raw value is the
\* label of the lookup for that signal and that sign, and '<signal>_anomaly'
\* where there is no such rule, as for a negative steering spike.
C24_SpikeSubtype ==
    \A k \in 1..Len(fast_anomalies) :
        RawAt(fast_anomalies[k]) # 0 =>
            fast_anomalies[k].spike_subtype =
                LabelFor(fast_anomalies[k].signal, RawAt(fast_anomalies[k]))


\* The indicator columns the lap table has.
IndicatorColumns ==
    {traffic_indicators[k] : k \in 1..Len(traffic_indicators)} \cap driver_data.columns

\* Whether the indicator column `column` shows lap `lap` as clear.
ShowsClear(column, lap) ==
    IF column = "is_clear_lap" THEN driver_data.values[column][lap] = 1
    ELSE driver_data.values[column][lap] = 0

\* The valid laps every indicator column shows as clear, and those at least
\* one shows as clear.
ClearByAll ==
    {k \in 1..Len(valid_laps) : \A c \in IndicatorColumns : ShowsClear(c, valid_laps[k])}
ClearByAny ==
    {k \in 1..Len(valid_laps) : \E c \in IndicatorColumns : ShowsClear(c, valid_laps[k])}

\* The fraction count / number of valid laps, clamped into [0.3, 1.0].
ClampedFraction(count) ==
    Clamp(Hundredths(30), Scale, (count * Scale) \div Len(valid_laps))

\* The keys of the sector weights that were computed from sector times.
ComputedKeys ==
    IF ~HasRows(sector_data) THEN {}
    ELSE {SectorKey(i) : i \in {j \in 1..3 :
             /\ sector_cols[j] \in sector_data[1].columns
             /\ Len(ValidSectorRows(sector_data[1], sector_cols[j])) >= 3}}

\* C25: with at least one indicator column in the lap table, the traffic
\* sub-score of a computed sector weight is the clamped fraction of the valid
\* laps that are clear, each lap counted once: it lies between the fraction
\* of the laps all indicators show clear and that of the laps any shows clear.
C25_TrafficScore ==
    (wpc \in {"weights", "done"} /\ Len(valid_laps) >= 5 /\ IndicatorColumns # {}) =>
        \A key \in ComputedKeys :
            /\ ClampedFraction(Cardinality(ClearByAll)) <= sector_weights[key].traffic_score
            /\ sector_weights[key].traffic_score <= ClampedFraction(Cardinality(ClearByAny))


\* clip(len / 10, min 5, max 50)
ClippedWindow(len) == Max(5, Min(len \div 10, 50))

\* The drift candidates of the column analysed last for a rolling window of
\* `window_size` samples.
DriftCandidates(window_size) ==
    LET n == telemetry_data.rows
        filtered_signal == FiltFiltLow(telemetry_data.columns[analysed_signal], n)
    IN  DriftPoints(detector, telemetry_data, analysed_signal,
                    TrendDrift(RollingMean(filtered_signal, n, window_size), n, window_size),
                    window_size,
                    (NpStd(filtered_signal, n) * detector.drift_threshold) \div 100)

\* C26: where the low-pass filter ran, the drift candidates are those of a
\* rolling window of clip(len / 10, min 5, max 50) samples, and the detector
\* returns none for want of a window only when that size is below 5.
C26_DriftWindow ==
    (/\ analysed_signal # None
     /\ LowPassDesignOk(detector)
     /\ telemetry_data.rows > PadLen("low"))
        => slow_anomalies =
              IF ClippedWindow(telemetry_data.rows) < 5 THEN <<>>
              ELSE DriftCandidates(ClippedWindow(telemetry_data.rows))


\* The filter whose output the fast path uses: the band-pass, the high-pass
\* when the band-pass design fails, none when both fail.
FilterUsed ==
    IF BandPassDesignOk(detector) THEN "band"
    ELSE IF HighPassDesignOk(detector) THEN "high"
    ELSE "none"

\* Spike detection on a filtered view of the column analysed last.
SpikesOf(filtered_signal) ==
    LET spike_threshold == SpikeThreshold(detector, filtered_signal)
    IN  SpikePoints(detector, telemetry_data, analysed_signal, filtered_signal,
                    spike_threshold,
                    GroupSpikes(SpikeIndices(filtered_signal, spike_threshold), 5))

\* Every slow candidate has come out as a degradation anomaly of its own.
SlowResultKept ==
    /\ Len(reconciled) = Len(slow_anomalies)
    /\ \A j \in 1..Len(slow_anomalies) :
          /\ reconciled[j].type = "degradation"
          /\ reconciled[j].slow_component = <<slow_anomalies[j]>>

\* C27: the fast path of an analysed signal yields no candidates for a
\* series no longer than the padding length of the filter used; when the
\* band-pass design fails, the candidates are the spikes of the high-pass
\* output; when the high-pass design fails too, there are none; and wherever
\* the fast path yields none, the iteration ends with the slow candidates of
\* the signal reconciled and appended to the anomalies.
C27_FastPathDegrades ==
    analysed_signal # None =>
        LET n == telemetry_data.rows
            col == telemetry_data.columns[analysed_signal]
        IN  /\ (FilterUsed # "none" /\ n <= PadLen(FilterUsed)) => fast_anomalies = <<>>
            /\ (FilterUsed = "high" /\ n > PadLen("high"))
                   => fast_anomalies = SpikesOf(FiltFiltHigh(col, n))
            /\ FilterUsed = "none" => fast_anomalies = <<>>
            /\ fast_anomalies = <<>> => SlowResultKept
            /\ dpc \in {"loop", "done", "summarized", "returned"}
            /\ Len(anomalies) >= Len(reconciled)
            /\ SubSeq(anomalies, Len(anomalies) - Len(reconciled) + 1, Len(anomalies))
                   = reconciled

\* The band-pass design failed and the high-pass output of a series of
\* exactly the band-pass padding length gave a candidate.
C27_Witness ==
    /\ analysed_signal # None
    /\ FilterUsed = "high"
    /\ telemetry_data.rows = PadLen("band")
    /\ Len(fast_anomalies) > 0


\* C28: in the sector-based composition the best time under the key s_i is
\* the best plausible time of the column sector_i_time, the weight under s_i
\* was scored from that same column, and every best time summed into
\* theoretical_best_lap has a weight applied to it, whatever sector columns
\* the table has.
C28_SectorKeysAligned ==
    (wpc = "done" /\ Len(valid_laps) >= 5 /\ theoretical_best.method = "sector_based") =>
        \A i \in 1..3 :
            /\ SectorKey(i) \in DOMAIN sector_weights
                   => sector_cols[i] \in sector_data[1].columns
            /\ SectorKey(i) \in DOMAIN theoretical_best.sector_bests =>
                  /\ i \in PlausibleSectors
                  /\ theoretical_best.sector_bests[SectorKey(i)] = Least(PlausibleTimes(i))
                  /\ SectorKey(i) \in DOMAIN siwtl_result.sector_analysis
                  /\ siwtl_result.sector_analysis[SectorKey(i)].achievability_weight
                         = sector_weights[SectorKey(i)].combined_weight


\* Positions of the reconciled anomalies that record the slow candidate s as
\* their slow component.
RecordedIn(s) ==
    {i \in 1..Len(reconciled) :
        /\ reconciled[i].slow_component = <<s>>
        /\ reconciled[i].type \in {"degradation", "compound"}}

\* C29: every slow candidate handed to the reconciler is in its output, as a
\* degradation anomaly of its own or as the recorded slow component of at
\* least one compound anomaly, also when several slow candidates lie within
\* the window of one fast candidate.
C29_NoSlowCandidateLost ==
    \A j \in 1..Len(slow_anomalies) : RecordedIn(slow_anomalies[j]) # {}


\* Every severity of the list is above 1 and at most 10.
SeveritiesAboveOne(list) ==
    \A i \in 1..Len(list) : Scale < list[i].severity /\ list[i].severity <= 10 * Scale

\* The low-pass view of the column analysed last.
LowPassLast ==
    FiltFiltLow(telemetry_data.columns[analysed_signal], telemetry_data.rows)

\* C30: with a positive spike threshold and a positive drift threshold every
\* candidate of the drift and of the spike detector, and so every reconciled
\* anomaly, has a severity above 1 and at most 10, and a signal whose filtered
\* view has the standard deviation 0 yields no candidate of that path.
C30_SeverityAboveOne ==
    (detector.spike_threshold > 0 /\ detector.drift_threshold > 0) =>
        /\ SeveritiesAboveOne(slow_anomalies)
        /\ SeveritiesAboveOne(fast_anomalies)
        /\ SeveritiesAboveOne(reconciled)
        /\ SeveritiesAboveOne(anomaly_df)
        /\ (analysed_signal # None /\ telemetry_data.rows > 0) =>
              /\ NpStd(LowPassLast, telemetry_data.rows) = 0 => slow_anomalies = <<>>
              /\ (FilteredLast # <<>> /\ NpStd(FilteredLast[1], telemetry_data.rows) = 0)
                     => fast_anomalies = <<>>

\* A drift candidate of a severity below 2 and a spike candidate have been
\* reconciled under positive thresholds.
C30_Witness ==
    /\ detector.spike_threshold > 0 /\ detector.drift_threshold > 0
    /\ \E j \in 1..Len(slow_anomalies) : slow_anomalies[j].severity < 2 * Scale
    /\ Len(fast_anomalies) > 0
    /\ Len(reconciled) > 0

====
